---- MODULE Spec2Model ----
(***************************************************************************)
(* A model of savethis: the name finder (_finder.py), the scope model      *)
(* (_scope.py), the dependency graph builder behind build_codegraph        *)
(* (core.py; CodeGraph itself lives in _dumper.py), the scope of a caller  *)
(* (_inspect_utils.py) and the serializers (_serializer.py).               *)
(*                                                                         *)
(* Source text is modelled by its parse tree: a body is a sequence of      *)
(* statements, each with the (line, col) at which it starts.  Names are    *)
(* sequences of atoms, <<"a", "b">> standing for the dotted name a.b.      *)
(***************************************************************************)
EXTENDS Integers, Sequences, FiniteSets, TLC

VARIABLES
    fbody,      \* SpecFind: body of the tree searched by find_scopedname_in_source
    fquery,     \* SpecFind: the ScopedName searched
    fres,       \* SpecFind: what the last search returned or raised
    fsteps,     \* SpecFind: number of searches made on this body
    senv,       \* SpecScope: the scope searched (scopelist, module, history)
    squery,     \* SpecScope: the ScopedName given to find_in_scope
    sres,       \* SpecScope: what find_in_scope returned or raised
    scopes,     \* SpecRegistry: the Scope objects alive
    counts,     \* SpecRegistry: Scope._counts, as pairs <<dot_string, id_>>
    rlast,      \* SpecRegistry: the last call of unscoped or == and what it gave
    gbody,      \* SpecGraph: the global statements of the module the object lives in
    gstart,     \* SpecGraph: the names the evaluable representation of the object uses
    graph,      \* SpecGraph: the CodeGraph, a function from ScopedName to CodeNode
    gorder,     \* SpecGraph: the keys of the graph in the order they were added
    todo,       \* SpecGraph: the worklist of CodeGraph.build
    enq,        \* SpecGraph: every name put on the worklist so far, in order
    gstatus,    \* SpecGraph: "init", "building", "built", "dumped" or the error raised
    gfailed,    \* SpecGraph: the name whose search raised the error
    out,        \* SpecGraph: the keys in the order dumps emits their nodes
    cdef,       \* SpecSig: the arguments of the function definition called
    csig,       \* SpecSig: the Signature
    ccall,      \* SpecSig: the arguments of the call given to get_call_assignments
    cres,       \* SpecSig: what get_call_assignments returned or raised
    rsrc,       \* SpecRename: the source given to rename
    rres,       \* SpecRename: the renamed source
    kstack,     \* SpecCallScope: the call stack, innermost frame first
    kread,      \* SpecCallScope: for each module, whether its source can be read
    kres,       \* SpecCallScope: the scope determined, or the exception raised
    tsrc,       \* SpecCut: the string with its pending replacements
    tcut,       \* SpecCut: the boundaries <<from_line, to_line, from_col, to_col>>
    tres,       \* SpecCut: what cut returned or raised
    serializer_i, \* SpecSerializer: the class attribute Serializer.i
    store,      \* SpecSerializer: the class attribute Serializer.store
    saving,     \* SpecSerializer: the sources of the graph given to save_all
    codegraph,  \* SpecSerializer: the sources of that graph when save_all is done
    invoked,    \* SpecSerializer: the serializers on which save_all called save
    written,    \* SpecSerializer: the files written, each with the serializer saved
    nblock,     \* SpecGlobals: the block given to find_globals
    nres        \* SpecGlobals: the names find_globals returned

findVars == <<fbody, fquery, fres, fsteps>>
scopeVars == <<senv, squery, sres>>
regVars == <<scopes, counts, rlast>>
graphVars == <<gbody, gstart, graph, gorder, todo, enq, gstatus, gfailed, out>>
sigVars == <<cdef, csig, ccall, cres>>
renameVars == <<rsrc, rres>>
callScopeVars == <<kstack, kread, kres>>
cutVars == <<tsrc, tcut, tres>>
serializerVars == <<serializer_i, store, saving, codegraph, invoked, written>>
globalsVars == <<nblock, nres>>
vars == <<findVars, scopeVars, regVars, graphVars, sigVars, renameVars, callScopeVars, cutVars, serializerVars, globalsVars>>

\* what the actions of one part leave alone
findRest == <<scopeVars, regVars, graphVars, sigVars, renameVars, callScopeVars, cutVars, serializerVars, globalsVars>>
scopeRest == <<findVars, regVars, graphVars, sigVars, renameVars, callScopeVars, cutVars, serializerVars, globalsVars>>
regRest == <<findVars, scopeVars, graphVars, sigVars, renameVars, callScopeVars, cutVars, serializerVars, globalsVars>>
graphRest == <<findVars, scopeVars, regVars, sigVars, renameVars, callScopeVars, cutVars, serializerVars, globalsVars>>
sigRest == <<findVars, scopeVars, regVars, graphVars, renameVars, callScopeVars, cutVars, serializerVars, globalsVars>>
renameRest == <<findVars, scopeVars, regVars, graphVars, sigVars, callScopeVars, cutVars, serializerVars, globalsVars>>
callScopeRest == <<findVars, scopeVars, regVars, graphVars, sigVars, renameVars, cutVars, serializerVars, globalsVars>>
cutRest == <<findVars, scopeVars, regVars, graphVars, sigVars, renameVars, callScopeVars, serializerVars, globalsVars>>
serializerRest == <<findVars, scopeVars, regVars, graphVars, sigVars, renameVars, callScopeVars, cutVars, globalsVars>>
globalsRest == <<findVars, scopeVars, regVars, graphVars, sigVars, renameVars, callScopeVars, cutVars, serializerVars>>

-----------------------------------------------------------------------------
(* Bounds of the model *)

\* longest body (number of top-level statements) of a searched tree
MaxStmts == 3
\* deepest nesting of function scopes (length of Scope.scopelist)
MaxLevels == 2
\* longest interactive history (number of cells)
MaxCells == 2
\* most Scope objects alive at a time
MaxScopes == 3
\* most positional arguments of a call
MaxPosArgs == 3
\* the most frames of a call stack
MaxFrames == 3
\* the length of a line of a text that is cut
MaxCols == 4
\* most serializers made (the values Serializer.i takes are 0..MaxIndex)
MaxIndex == 11
\* most serializers kept in Serializer.store
MaxStored == 2
\* most files written
MaxWritten == 2

-----------------------------------------------------------------------------
(* Names and positions *)

NoName == <<>>
NoPos == <<>>
A == <<"a">>
B == <<"b">>
C == <<"c">>
F == <<"f">>
AB == <<"a", "b">>

\* ScopedName.variants: the prefixes of a dotted name, shortest first
Variants(name) == [i \in 1..Len(name) |-> SubSeq(name, 1, i)]

\* the comparison of statements_before: position p starts strictly before (line, col)
StrictlyBefore(p, ceiling) ==
    \/ p[1] < ceiling[1]
    \/ p[1] = ceiling[1] /\ p[2] < ceiling[2]

Reverse(s) == [i \in 1..Len(s) |-> s[Len(s) + 1 - i]]

Min(S) == CHOOSE x \in S : \A y \in S : x <= y

-----------------------------------------------------------------------------
(* Statements.  Every statement is a record with the same fields:          *)
(*   kind     FunctionDef, AsyncFunctionDef, ClassDef, Import, ImportFrom, *)
(*            Assign, With, If, Expr                                       *)
(*   pos      <<lineno, col_offset>> of the statement                      *)
(*   name     the name of a def or class                                   *)
(*   aliases  the aliases of an import, each [name, asname]                *)
(*   targets  the names an assignment binds (tuple targets flattened)      *)
(*   items    the optional_vars of the items of a with statement           *)
(*   body     the statements nested in a def, class, with or if            *)
(*   uses     the free names the statement loads                           *)
(***************************************************************************)

Stmt(kind, name, aliases, targets, items, body, uses) ==
    [kind |-> kind, pos |-> NoPos, name |-> name, aliases |-> aliases,
     targets |-> targets, items |-> items, body |-> body, uses |-> uses]

Alias(name, asname) == [name |-> name, asname |-> asname]
\* optional_vars of a with item: absent, a Name (`as a`) or a Tuple (`as (a, b)`)
ItemNone == [t |-> "none", id |-> NoName, elts |-> {}]
ItemName(n) == [t |-> "Name", id |-> n, elts |-> {}]
ItemTuple(elts) == [t |-> "Tuple", id |-> NoName, elts |-> elts]

AssignStmt(targets, uses) == Stmt("Assign", NoName, <<>>, targets, <<>>, <<>>, uses)
FunctionDefStmt(name, body, uses) == Stmt("FunctionDef", name, <<>>, {}, <<>>, body, uses)
AsyncFunctionDefStmt(name, body, uses) == Stmt("AsyncFunctionDef", name, <<>>, {}, <<>>, body, uses)
ClassDefStmt(name, body, uses) == Stmt("ClassDef", name, <<>>, {}, <<>>, body, uses)
ImportStmt(aliases) == Stmt("Import", NoName, aliases, {}, <<>>, <<>>, {})
ImportFromStmt(aliases) == Stmt("ImportFrom", NoName, aliases, {}, <<>>, <<>>, {})
WithStmt(items, body) == Stmt("With", NoName, <<>>, {}, items, body, {})
IfStmt(body) == Stmt("If", NoName, <<>>, {}, <<>>, body, {})
ExprStmt(uses) == Stmt("Expr", NoName, <<>>, {}, <<>>, <<>>, uses)

\* A statement written on line `line`: it starts at column 0 and the statements
\* of its block follow on the same line (`if c: a = 1; a = 2`), 4 columns apart.
PlaceAt(s, line) ==
    [s EXCEPT !.pos = <<line, 0>>,
              !.body = [i \in 1..Len(s.body) |-> [s.body[i] EXCEPT !.pos = <<line, 4 * i>>]]]

\* A body written one statement per line, from line 1
Layout(shapes) == [i \in 1..Len(shapes) |-> PlaceAt(shapes[i], i)]

-----------------------------------------------------------------------------
(* _ThingFinder and its subclasses *)

\* _ThingFinder.__subclasses__(), in definition order
FinderClasses ==
    <<"_FunctionDefFinder", "_ClassDefFinder", "_ImportFinder", "_ImportFromFinder",
      "_AssignFinder">>

NotFound ==
    [st |-> "none", kind |-> "", pos |-> NoPos, at |-> NoPos, alias |-> Alias(NoName, NoName),
     globalscope |-> FALSE, uses |-> {}]
Raised(exc) == [NotFound EXCEPT !.st = exc]

\* A statement found: finder.node() is the statement itself, at its own position
FoundStmt(s) ==
    [NotFound EXCEPT !.st = "found", !.kind = s.kind, !.pos = s.pos, !.at = s.pos,
                     !.uses = s.uses]

\* _ImportFinder.node / _ImportFromFinder.node: the node is parsed again from the
\* deparsed alias, so it sits at line 1, column 0 of a one-line source; `at` keeps
\* where the import statement stands in the searched source.
FoundAlias(s, alias) ==
    [NotFound EXCEPT !.st = "found", !.kind = s.kind, !.pos = <<1, 0>>, !.at = s.pos,
                     !.alias = alias, !.globalscope = (alias.asname = NoName)]

IsRaise(r) == r.st \notin {"none", "found"}

\* visit_Import / visit_ImportFrom: the first alias bound to var_name
AliasMatches(alias, var) ==
    \/ alias.asname = var
    \/ alias.asname = NoName /\ alias.name = var

VisitAliases(s, var) ==
    LET hits == {i \in 1..Len(s.aliases) : AliasMatches(s.aliases[i], var)}
    IN  IF hits = {} THEN NotFound ELSE FoundAlias(s, s.aliases[Min(hits)])

\* the loop over node.items of visit_With: optional_vars.id is read on every item
\* that has optional_vars, which a tuple target does not have
RECURSIVE WithHeader(_, _)
WithHeader(items, var) ==
    IF items = <<>> THEN "ok"
    ELSE LET item == Head(items)
         IN  CASE item.t = "none" -> WithHeader(Tail(items), var)
               [] item.t = "Tuple" -> "AttributeError"
               [] item.t = "Name" ->
                    IF item.id = var THEN "NotImplementedError"
                    ELSE WithHeader(Tail(items), var)

\* finder.visit(statement) for a finder of class cls looking for var_name
RECURSIVE Visit(_, _, _), VisitBody(_, _, _, _)

\* visiting the statements of a block in order: a later match overwrites _result
VisitBody(cls, body, var, acc) ==
    IF body = <<>> THEN acc
    ELSE LET r == Visit(cls, Head(body), var)
         IN  IF IsRaise(r) THEN r
             ELSE VisitBody(cls, Tail(body), var, IF r.st = "found" THEN r ELSE acc)

Visit(cls, s, var) ==
    CASE s.kind = "FunctionDef" ->
            IF cls = "_FunctionDefFinder" /\ s.name = var THEN FoundStmt(s) ELSE NotFound
      [] s.kind = "ClassDef" ->
            IF cls = "_ClassDefFinder" /\ s.name = var THEN FoundStmt(s) ELSE NotFound
      [] s.kind = "Import" ->
            IF cls = "_ImportFinder" THEN VisitAliases(s, var) ELSE NotFound
      [] s.kind = "ImportFrom" ->
            IF cls = "_ImportFromFinder" THEN VisitAliases(s, var) ELSE NotFound
      [] s.kind = "Assign" ->
            IF cls = "_AssignFinder" /\ var \in s.targets THEN FoundStmt(s) ELSE NotFound
      [] s.kind = "With" ->
            LET h == WithHeader(s.items, var)
            IN  IF h # "ok" THEN Raised(h) ELSE VisitBody(cls, s.body, var, NotFound)
      [] s.kind = "If" -> VisitBody(cls, s.body, var, NotFound)
      \* no finder has a visit_AsyncFunctionDef: generic_visit goes through the body
      [] s.kind = "AsyncFunctionDef" -> VisitBody(cls, s.body, var, NotFound)
      [] OTHER -> NotFound

-----------------------------------------------------------------------------
(* find_scopedname_in_source *)

\* statements_before(source, statements, pos): statements is the reversed body
StatementsBefore(statements, pos) ==
    IF pos = NoPos THEN statements
    ELSE LET hits == {i \in 1..Len(statements) : StrictlyBefore(statements[i].pos, pos)}
         IN  IF hits = {} THEN <<>>
             ELSE SubSeq(statements, Min(hits), Len(statements))

ScopedName(name, scope, pos, cell_no) ==
    [name |-> name, scope |-> scope, pos |-> pos, cell_no |-> cell_no]

NoScopedName == ScopedName(NoName, 0, NoPos, -1)

Result(st, node, name) == [st |-> st, node |-> node, name |-> name]

\* the element of a set of one element: the value of a call that is used several times
Only(S) == CHOOSE x \in S : TRUE

\* The three nested loops (statements, variants, finder classes) numbered in the
\* order the code runs them; the first attempt that finds or raises ends the search.
FindScopedNameInSource(scoped_name, body) ==
    LET vs == Variants(scoped_name.name)
        nv == Len(vs)
        nc == Len(FinderClasses)
        Attempt(stmts, k) ==
            LET i == ((k - 1) \div (nv * nc)) + 1
                v == (((k - 1) % (nv * nc)) \div nc) + 1
                c == ((k - 1) % nc) + 1
            IN  [r |-> Visit(FinderClasses[c], stmts[i], vs[v]), var |-> vs[v]]
        Return(a) ==
            IF IsRaise(a.r) THEN Result(a.r.st, NotFound, NoScopedName)
            ELSE Result("found", a.r, ScopedName(a.var, scoped_name.scope, a.r.pos, -1))
        First(stmts, hits) ==
            IF hits = {} THEN Result("NameNotFound", NotFound, NoScopedName)
            ELSE Only({Return(a) : a \in {Attempt(stmts, Min(hits))}})
        Search(stmts) ==
            Only({First(stmts, hits) :
                    hits \in {{k \in 1..(Len(stmts) * nv * nc) :
                                 Attempt(stmts, k).r.st # "none"}}})
    IN  Only({Search(stmts) : stmts \in {StatementsBefore(Reverse(body), scoped_name.pos)}})

-----------------------------------------------------------------------------
(* Scopes of a searched program.  An environment holds what a Scope object  *)
(* refers to: its scopelist (the bodies of the enclosing functions,         *)
(* innermost first), its module and the interactive history.  A scope of    *)
(* the environment is the number of levels dropped from the scopelist.      *)
(***************************************************************************)

\* Scope.empty(): no module, no scopelist
EmptyScope == -1

Env(levels, module, cells) == [levels |-> levels, module |-> module, cells |-> cells]

\* module.kind: "none" (Scope.module is None), "main" (sys.modules['__main__']) or
\* "other"; a module without readable source makes get_module_source raise TypeError
Module(kind, hasSource, body) == [kind |-> kind, hasSource |-> hasSource, body |-> body]

\* Scope.up
Up(scope) == scope + 1

\* Scope.global_
Global(env) == Len(env.levels)

\* one place a search looked at: a level of the scopelist, the module or a cell
Looked(place, idx, pos, st) == [place |-> place, idx |-> idx, pos |-> pos, st |-> st]

ScopeResult(st, node, name, trace) == [st |-> st, node |-> node, name |-> name, trace |-> trace]

Fail(st, trace) == ScopeResult(st, NotFound, NoScopedName, trace)

\* find_scopedname_in_ipython: the cells from `start` backwards; cell numbers count
\* from 0 and the slice cells[start::-1] begins at the last cell when start is
\* beyond it
RECURSIVE CellLoop(_, _, _, _, _)
CellLoop(scoped_name, cells, i, start, trace) ==
    IF i < 0 THEN Fail("NameNotFound", trace)
    ELSE LET name_to_find == IF i = start THEN scoped_name
                             ELSE [scoped_name EXCEPT !.pos = NoPos]
             After(r) ==
                LET tr == Append(trace, Looked("cell", i, name_to_find.pos, r.st))
                IN  CASE r.st = "found" ->
                           ScopeResult("found", r.node, [r.name EXCEPT !.cell_no = i], tr)
                      [] r.st = "NameNotFound" ->
                           CellLoop(scoped_name, cells, i - 1, start, tr)
                      [] OTHER -> Fail(r.st, tr)
         IN  Only({After(r) : r \in {FindScopedNameInSource(name_to_find, cells[i + 1])}})

FindScopedNameInIpython(scoped_name, cells, trace) ==
    LET start == IF scoped_name.cell_no = -1 THEN Len(cells) - 1 ELSE scoped_name.cell_no
        first == IF start < Len(cells) THEN start ELSE Len(cells) - 1
    IN  CellLoop(scoped_name, cells, first, start, trace)

\* find_scopedname: the module's source, or the history for a __main__ without source
FindScopedName(scoped_name, env, trace) ==
    IF env.module.hasSource
    THEN LET After(r) ==
                ScopeResult(r.st, r.node, r.name,
                            Append(trace, Looked("module", 0, scoped_name.pos, r.st)))
         IN  Only({After(r) : r \in {FindScopedNameInSource(scoped_name, env.module.body)}})
    ELSE LET tr == Append(trace, Looked("module", 0, scoped_name.pos, "TypeError"))
         IN  IF env.module.kind # "main" THEN Fail("NameNotFound", tr)
             ELSE FindScopedNameInIpython(scoped_name, env.cells, tr)

\* the scope find_in_scope gives a name found on a level of the scopelist
ScopeOfFound(node, scope) == IF node.globalscope THEN EmptyScope ELSE scope

\* the scope find_in_scope gives a name found in the module or the history
GlobalScopeOfFound(node, env) == IF node.globalscope THEN EmptyScope ELSE Global(env)

\* a fall-through that would keep the ceiling and the cell of the searched name
KeepSearched(searched_name) == searched_name

\* the name searched on the next level after a level has failed
NextSearched(searched_name) == [searched_name EXCEPT !.pos = NoPos, !.cell_no = -1]

\* find_in_scope: the loop over scope.scopelist; `scope` counts the scope.up() made
RECURSIVE LevelLoop(_, _, _, _)
LevelLoop(searched_name, env, scope, trace) ==
    IF scope >= Len(env.levels)
    THEN IF env.module.kind = "none" THEN Fail("NameNotFound", trace)
         ELSE LET After(r) ==
                     IF r.st = "found"
                     THEN [r EXCEPT !.name.scope = GlobalScopeOfFound(r.node, env)]
                     ELSE r
              IN  Only({After(r) : r \in {FindScopedName(searched_name, env, trace)}})
    ELSE LET After(r) ==
                LET tr == Append(trace, Looked("level", scope, searched_name.pos, r.st))
                IN  CASE r.st = "found" ->
                           ScopeResult("found", r.node,
                                       [r.name EXCEPT !.scope = ScopeOfFound(r.node, scope)],
                                       tr)
                      [] r.st = "NameNotFound" ->
                           LevelLoop(NextSearched(searched_name), env, Up(scope), tr)
                      [] OTHER -> Fail(r.st, tr)
         IN  Only({After(r) :
                     r \in {FindScopedNameInSource(searched_name, env.levels[scope + 1])}})

\* find_in_scope(scoped_name); the empty scope has no module and no scopelist
FindInScope(scoped_name, env) ==
    IF scoped_name.scope = EmptyScope THEN Fail("NameNotFound", <<>>)
    ELSE LevelLoop(scoped_name, env, scoped_name.scope, <<>>)

-----------------------------------------------------------------------------
(* The dependency graph builder: CodeGraph and CodeNode (_dumper.py), used  *)
(* by build_codegraph and dumps (core.py).  The graph is a function from    *)
(* ScopedName to CodeNode.                                                  *)
(***************************************************************************)

\* names of builtins
LenName == <<"len">>
Builtins == {LenName}

\* the name given to the object that is dumped
StartName == <<"obj">>

\* the module of the caller, at top level (CallInfo().scope)
CallerEnv(body) == Env(<<>>, Module("other", TRUE, body), <<>>)

CodeNode(source, kind, globals_, name) ==
    [source |-> source, kind |-> kind, globals_ |-> globals_, name |-> name]

\* find_globals: the free names of a statement, in the empty scope and without position
FindGlobals(uses) == {ScopedName(u, EmptyScope, NoPos, -1) : u \in uses}

\* a filter that would keep the builtins
KeepBuiltins(names) == names

\* _filter_builtins
FilterBuiltins(names) == {n \in names : n.name \notin Builtins}

\* add_scope_and_pos: names without scope or position get those of the defining name
AddScopeAndPos(names, name) ==
    {[n EXCEPT !.scope = IF n.scope = EmptyScope THEN name.scope ELSE n.scope,
               !.pos = IF n.pos = NoPos THEN name.pos ELSE n.pos] : n \in names}

\* the dependencies of a statement defined under `name`
GlobalsOf(uses, name) == AddScopeAndPos(FilterBuiltins(FindGlobals(uses)), name)

\* find_codenode: the name finder, then the globals of the statement found
FindCodenode(name, body) ==
    LET After(r) ==
            IF r.st # "found"
            THEN [st |-> r.st, node |-> CodeNode(NoPos, "", {}, NoScopedName)]
            ELSE [st |-> "found",
                  node |-> CodeNode(r.node.at, r.node.kind,
                                    GlobalsOf(r.node.uses, r.name), r.name)]
    IN  Only({After(r) : r \in {FindInScope(name, CallerEnv(body))}})

\* the start node `obj = <evaluable representation>` in the scope of the caller
StartKey(body) == ScopedName(StartName, Global(CallerEnv(body)), NoPos, -1)

StartNode(uses, body) ==
    CodeNode(NoPos, "Assign", GlobalsOf(uses, StartKey(body)), StartKey(body))

\* the sequences that list the elements of a set once each
Orderings(S) ==
    {s \in [1..Cardinality(S) -> S] : \A i, j \in 1..Cardinality(S) : s[i] = s[j] => i = j}

Elements(s) == {s[i] : i \in 1..Len(s)}

\* enqueueing that would skip nothing
AllGlobals(globals_, keys, queue) == globals_

\* enqueueing that would skip only what is waiting on the worklist
UnqueuedGlobals(globals_, keys, queue) == globals_ \ Elements(queue)

\* the discovered globals that are enqueued: those that are neither a key of the
\* graph nor waiting on the worklist
NewGlobals(globals_, keys, queue) == globals_ \ (keys \cup Elements(queue))

\* position of an element in a sequence that holds it
IndexOf(s, x) == CHOOSE i \in 1..Len(s) : s[i] = x

\* an order of emission that would follow the order of discovery
DiscoveryOrder(g, order) == order

\* the stable topological sort of dumps: among the nodes all of whose dependencies
\* are emitted, the one discovered first is emitted next
RECURSIVE Emit(_, _, _)
Emit(g, order, done) ==
    LET keys == DOMAIN g
        rest == keys \ Elements(done)
        ready == {k \in rest : (g[k].globals_ \cap keys) \subseteq Elements(done)}
        first(S) == CHOOSE k \in S : \A o \in S : IndexOf(order, k) <= IndexOf(order, o)
        next == IF ready = {} THEN first(rest) ELSE first(ready)
    IN  IF rest = {} THEN done
        ELSE Only({Emit(g, order, emitted) : emitted \in {Append(done, next)}})

TopSort(g, order) == Emit(g, order, <<>>)

-----------------------------------------------------------------------------
(* Scope objects and the registry Scope._counts.  Strings are sequences of  *)
(* tokens, so that concatenations are compared as the program compares them.*)
(***************************************************************************)

\* id_ of a scope made without one
None == 0

\* id_ = str((frame.f_code.co_filename, locs)): one string per call site, numbered
\* in the order in which sorted() puts the strings
Sites == {1, 2}

\* Scope.module_name: '' for no module
NoModule == <<>>
MainModule == <<"__main__">>
OtherModule == <<"m">>

\* full names of function definitions
FName == <<"f">>
GName == <<"g">>
F1Name == <<"f", "_", "1">>

\* the fields of a Scope object; n tells apart the objects with equal fields
Scope(module, scopelist, id_) ==
    [module |-> module, scopelist |-> scopelist, id_ |-> id_, n |-> 0]

\* sep.join(xs)
RECURSIVE Join(_, _)
Join(sep, xs) ==
    IF xs = <<>> THEN <<>>
    ELSE IF Len(xs) = 1 THEN xs[1]
    ELSE xs[1] \o sep \o Join(sep, Tail(xs))

\* Scope.dot_string
DotString(scope) == Join(<<".">>, <<scope.module>> \o Reverse(scope.scopelist))

\* Scope.__init__: self._counts[self.dot_string()].add(id_)
Register(cnts, scope) == cnts \cup {<<DotString(scope), scope.id_>>}

\* self._counts[self.dot_string()]
Ids(cnts, dot_string) == {p[2] : p \in {q \in cnts : q[1] = dot_string}}

\* sorted() of a set that holds None next to a string raises TypeError
Unsortable == -1

\* an index that would not tell the ids of a dotted string apart
IndexZero(scope, cnts) == 0

\* Scope.index
Index(scope, cnts) ==
    LET ids == Ids(cnts, DotString(scope))
    IN  IF None \in ids /\ ids # {None} THEN Unsortable
        ELSE Cardinality({x \in ids : x < scope.id_})

\* a formatted index that would always be empty
NoFormattedIndex(scope, cnts) == <<>>

\* Scope._formatted_index
FormattedIndex(scope, cnts) ==
    IF Index(scope, cnts) = 0 THEN <<>> ELSE <<"_", ToString(Index(scope, cnts))>>

\* what a call gives when index() raises
TypeError == <<"TypeError">>

\* Scope.__repr__
Repr(scope, cnts) ==
    IF Index(scope, cnts) = Unsortable THEN TypeError
    ELSE <<"Scope[">> \o DotString(scope) \o FormattedIndex(scope, cnts) \o <<"]">>

\* Scope.unscoped(varname); the module names of the model hold no dot to replace
Unscoped(scope, varname, cnts) ==
    IF scope.scopelist = <<>> /\ scope.module \in {NoModule, MainModule} THEN varname
    ELSE IF Index(scope, cnts) = Unsortable THEN TypeError
    ELSE Join(<<"_">>, <<scope.module>> \o scope.scopelist)
             \o FormattedIndex(scope, cnts) \o <<"_">> \o varname

\* Scope.__eq__: str(self) == str(other)
Eq(scope, other, cnts) ==
    IF Index(scope, cnts) = Unsortable \/ Index(other, cnts) = Unsortable THEN "TypeError"
    ELSE IF Repr(scope, cnts) = Repr(other, cnts) THEN "True" ELSE "False"

-----------------------------------------------------------------------------
(* Signature (_scope.py): the binding of the arguments of a call to the     *)
(* parameters of a function.  A dict is a sequence of pairs <<key, value>>  *)
(* in insertion order; the text of an expression is a sequence of tokens.   *)
(***************************************************************************)

\* None for a name (vararg, kwarg, star_kwargs) and for a text (a default, star_args)
NoParam == ""
NoText == <<>>

DictKeys(d) == {d[i][1] : i \in 1..Len(d)}

DictGet(d, k) == d[CHOOSE i \in 1..Len(d) : d[i][1] = k][2]

\* d[k] = v: a key keeps its place when its value is replaced
DictSet(d, k, v) ==
    IF k \in DictKeys(d)
    THEN [i \in 1..Len(d) |-> IF d[i][1] = k THEN <<k, v>> ELSE d[i]]
    ELSE Append(d, <<k, v>>)

\* the fields of a Signature
Signature(argnames, pos_only_argnames, defaults, kwonly_defaults, vararg, kwarg, ignore_) ==
    [argnames |-> argnames, pos_only_argnames |-> pos_only_argnames,
     defaults |-> defaults, kwonly_defaults |-> kwonly_defaults,
     vararg |-> vararg, kwarg |-> kwarg, ignore_extra_kwargs |-> ignore_]

\* Signature.all_argnames
AllArgnames(signature) == signature.pos_only_argnames \o signature.argnames

\* ast.arguments of a function definition; defaults belong to the last of args,
\* kw_defaults has one entry per keyword-only argument (NoText: no default)
Arguments(posonlyargs, args, defaults, kwonlyargs, kw_defaults, vararg, kwarg) ==
    [posonlyargs |-> posonlyargs, args |-> args, defaults |-> defaults,
     kwonlyargs |-> kwonlyargs, kw_defaults |-> kw_defaults,
     vararg |-> vararg, kwarg |-> kwarg]

\* {name: val for name, val in zip(names, vals)}
RECURSIVE ZipDict(_, _)
ZipDict(names, vals) ==
    IF names = <<>> \/ vals = <<>> THEN <<>>
    ELSE <<<<Head(names), Head(vals)>>>> \o ZipDict(Tail(names), Tail(vals))

\* {name: val for name, val in zip(args.kwonlyargs, args.kw_defaults) if val is not None}
RECURSIVE KwonlyDefaults(_, _)
KwonlyDefaults(names, vals) ==
    IF names = <<>> \/ vals = <<>> THEN <<>>
    ELSE (IF Head(vals) = NoText THEN <<>> ELSE <<<<Head(names), Head(vals)>>>>)
         \o KwonlyDefaults(Tail(names), Tail(vals))

\* _parse_def_args
ParseDefArgs(args) ==
    Signature(args.args, args.posonlyargs,
              ZipDict(Reverse(args.args), Reverse(args.defaults)),
              KwonlyDefaults(args.kwonlyargs, args.kw_defaults),
              args.vararg, args.kwarg, FALSE)

\* the arguments of a call, as _get_call_signature gives them, and the options
Call(pos_args, keyword_args, star_args, star_kwargs, dump_kwargs, ignore_extra_kwargs) ==
    [pos_args |-> pos_args, keyword_args |-> keyword_args, star_args |-> star_args,
     star_kwargs |-> star_kwargs, dump_kwargs |-> dump_kwargs,
     ignore_extra_kwargs |-> ignore_extra_kwargs]

\* what get_call_assignments returns (st = "ok") or raises
Assignments(st, res) == [st |-> st, res |-> res]

\* for name, val in self.kwonly_defaults.items(): keyword_args[name], else val
RECURSIVE FromKwonlyDefaults(_, _, _)
FromKwonlyDefaults(res, kwonly_defaults, keyword_args) ==
    IF kwonly_defaults = <<>> THEN res
    ELSE LET name == Head(kwonly_defaults)[1]
             val == IF name \in DictKeys(keyword_args) THEN DictGet(keyword_args, name)
                    ELSE Head(kwonly_defaults)[2]
         IN  FromKwonlyDefaults(DictSet(res, name, val), Tail(kwonly_defaults), keyword_args)

\* for name, val in zip(self.all_argnames, pos_args): res[name] = val
RECURSIVE FromPosArgs(_, _, _)
FromPosArgs(res, names, pos_args) ==
    IF names = <<>> \/ pos_args = <<>> THEN res
    ELSE FromPosArgs(DictSet(res, Head(names), Head(pos_args)), Tail(names), Tail(pos_args))

\* pos_args[len(self.all_argnames):]
Overflow(signature, pos_args) ==
    SubSeq(pos_args, Len(AllArgnames(signature)) + 1, Len(pos_args))

\* a vararg binding that would hold every positional argument
WholeVararg(signature, pos_args) == <<"[">> \o Join(<<", ">>, pos_args) \o <<"]">>

\* '[' + ', '.join(pos_args[len(self.all_argnames):]) + ']'
VarargText(signature, pos_args) ==
    <<"[">> \o Join(<<", ">>, Overflow(signature, pos_args)) \o <<"]">>

\* if self.vararg is not None: res[self.vararg] = ...
FromVararg(res, signature, pos_args) ==
    IF signature.vararg = NoParam THEN res
    ELSE DictSet(res, signature.vararg, VarargText(signature, pos_args))

\* the loop over keyword_args: a pair <<res, kwargs>>
RECURSIVE FromKeywordArgs(_, _, _, _)
FromKeywordArgs(res, kwargs, signature, keyword_args) ==
    IF keyword_args = <<>> THEN <<res, kwargs>>
    ELSE LET name == Head(keyword_args)[1]
             val == Head(keyword_args)[2]
         IN  IF name \in DictKeys(res)
             THEN FromKeywordArgs(res, kwargs, signature, Tail(keyword_args))
             ELSE IF name \in {signature.argnames[i] : i \in 1..Len(signature.argnames)}
             THEN FromKeywordArgs(DictSet(res, name, val), kwargs, signature,
                                  Tail(keyword_args))
             ELSE FromKeywordArgs(res, DictSet(kwargs, name, val), signature,
                                  Tail(keyword_args))

\* '{' + ', '.join(f"'{k}': {v}" for k, v in kwargs.items()) + '}'
DumpedKwargs(kwargs) ==
    <<"{">> \o Join(<<", ">>, [i \in 1..Len(kwargs) |->
                                  <<"'", kwargs[i][1], "': ">> \o kwargs[i][2]]) \o <<"}">>

\* the dict kwargs itself as a value of res
DictValue(kwargs) ==
    <<"dict">> \o Join(<<>>, [i \in 1..Len(kwargs) |-> <<kwargs[i][1]>> \o kwargs[i][2]])

\* f"{star_kwargs}.get('{name}', {val})"
GetText(star_kwargs, name, val) == <<star_kwargs, ".get('", name, "', ">> \o val \o <<")">>

\* for name, val in self.defaults.items(): if name not in res: ...
RECURSIVE FromDefaults(_, _, _)
FromDefaults(res, defaults, star_kwargs) ==
    IF defaults = <<>> THEN res
    ELSE LET name == Head(defaults)[1]
             val == Head(defaults)[2]
             new == IF name \in DictKeys(res) THEN res
                    ELSE IF star_kwargs # NoParam
                    THEN DictSet(res, name, GetText(star_kwargs, name, val))
                    ELSE DictSet(res, name, val)
         IN  FromDefaults(new, Tail(defaults), star_kwargs)

\* Signature.get_call_assignments
GetCallAssignments(signature, call) ==
    LET Extra(res, kwargs) ==
            IF kwargs # <<>> /\ DictKeys(kwargs) # {NoParam}
            THEN IF signature.kwarg = NoParam
                 THEN IF ~signature.ignore_extra_kwargs THEN Assignments("ValueError", <<>>)
                      ELSE Assignments("ok", res)
                 ELSE IF call.dump_kwargs
                 THEN Assignments("ok", DictSet(res, signature.kwarg, DumpedKwargs(kwargs)))
                 ELSE Assignments("ok", DictSet(res, signature.kwarg, DictValue(kwargs)))
            ELSE Assignments("ok", res)
        Last(a) ==
            IF a.st # "ok" THEN a
            ELSE Assignments("ok", FromDefaults(a.res, signature.defaults, call.star_kwargs))
        Keywords(res) ==
            Only({Only({Last(a) : a \in {Extra(p[1], p[2])}}) :
                    p \in {FromKeywordArgs(res, <<>>, signature, call.keyword_args)}})
    IN  Only({Keywords(res) :
                res \in {FromVararg(FromPosArgs(FromKwonlyDefaults(<<>>,
                                                     signature.kwonly_defaults,
                                                     call.keyword_args),
                                                AllArgnames(signature), call.pos_args),
                                    signature, call.pos_args)}})

-----------------------------------------------------------------------------
(* rename (_dumper.py): the scope-aware renaming of a name in a piece of    *)
(* source.  The source is modelled by the occurrences of names in its parse *)
(* tree: a block is a sequence of nodes, a node is an occurrence of a name  *)
(* (stored, loaded, or the attribute of an attribute access) or a function  *)
(* definition, a class definition or a comprehension with its own block.    *)
(***************************************************************************)

Node(kind, id, params, defaults, body) ==
    [kind |-> kind, id |-> id, params |-> params, defaults |-> defaults, body |-> body]

\* id = ...
Store(id) == Node("Store", id, <<>>, <<>>, <<>>)
\* ... = id
Load(id) == Node("Load", id, <<>>, <<>>, <<>>)
\* self.id
Attr(id) == Node("Attr", id, <<>>, <<>>, <<>>)
\* def id(params=defaults): body
Def(id, params, defaults, body) == Node("Def", id, params, defaults, body)
\* class id: body
Class(id, body) == Node("Class", id, <<>>, <<>>, body)
\* [body for id in iter]: the iterable is kept in defaults
Comp(id, iter, body) == Node("Comp", id, <<>>, iter, body)

\* a function definition binds the name in its own scope: as a parameter, by an
\* assignment in its body, or as the name of a definition in its body
BindsLocally(node, name) ==
    \/ \E i \in 1..Len(node.params) : node.params[i] = name
    \/ \E i \in 1..Len(node.body) :
          /\ node.body[i].kind \in {"Store", "Def", "Class"}
          /\ node.body[i].id = name

\* a renaming that would rewrite every occurrence of the name, whatever its scope
RECURSIVE RenameEverywhere(_, _, _, _, _)
RenameEverywhere(block, from_, to, place, rename_locals) ==
    [i \in 1..Len(block) |->
        [block[i] EXCEPT
            !.id = IF @ = from_ /\ block[i].kind # "Attr" THEN to ELSE @,
            !.defaults = RenameEverywhere(@, from_, to, place, rename_locals),
            !.body = RenameEverywhere(@, from_, to, place, rename_locals)]]

\* the renaming pass over a block; place is "module", "class" or "function", the
\* kind of block the nodes stand in
RECURSIVE RenameBlock(_, _, _, _, _)
RenameBlock(block, from_, to, place, rename_locals) ==
    LET Renamed(id) == IF id = from_ THEN to ELSE id
        One(node) ==
            CASE node.kind = "Load" -> [node EXCEPT !.id = Renamed(@)]
              [] node.kind = "Store" ->
                    IF place = "class" THEN node ELSE [node EXCEPT !.id = Renamed(@)]
              [] node.kind = "Attr" -> node
              [] node.kind = "Def" ->
                    [node EXCEPT
                        !.id = IF place = "module" /\ rename_locals THEN Renamed(@) ELSE @,
                        !.defaults = RenameBlock(@, from_, to, place, rename_locals),
                        !.body = IF BindsLocally(node, from_) THEN @
                                 ELSE RenameBlock(@, from_, to, "function", rename_locals)]
              [] node.kind = "Class" ->
                    [node EXCEPT
                        !.id = IF place = "module" /\ rename_locals THEN Renamed(@) ELSE @,
                        !.body = RenameBlock(@, from_, to, "class", rename_locals)]
              [] node.kind = "Comp" ->
                    [node EXCEPT
                        !.defaults = RenameBlock(@, from_, to, place, rename_locals),
                        !.body = IF node.id = from_ THEN @
                                 ELSE RenameBlock(@, from_, to, place, rename_locals)]
    IN  [i \in 1..Len(block) |-> One(block[i])]

\* rename(source, from_, to, rename_locals)
Rename(source, from_, to, rename_locals) ==
    RenameBlock(source, from_, to, "module", rename_locals)

-----------------------------------------------------------------------------
(* find_globals and _VarFinder (_dumper.py).  A block is a sequence of      *)
(* nodes in the order in which they are visited: the value of an assignment *)
(* before its targets.  In `x.a = 2` and `x[1] = 2` the name x is loaded.   *)
(***************************************************************************)

\* what a _VarFinder has collected: globals, locals, and the globals of the
\* definitions nested in the block
Vars(globals, locals, nested) == [globals |-> globals, locals |-> locals, nested |-> nested]

\* a result that would keep every free name of the nested definitions
AllNested(found) == found.globals \cup found.nested

\* the globals of a block that was visited: the names loaded before they were
\* bound, and the free names of nested definitions that the block does not bind
GlobalsFound(found) == found.globals \cup (found.nested \ found.locals)

RECURSIVE VarFinderVisit(_, _)
\* _VarFinder visiting the nodes of a block one after the other
VarFinderVisit(block, found) ==
    IF block = <<>> THEN found
    ELSE LET node == Head(block)
             Params == {node.params[i] : i \in 1..Len(node.params)}
             Step(sofar) ==
                 CASE node.kind = "Load" ->
                        IF node.id \in sofar.locals THEN sofar
                        ELSE [sofar EXCEPT !.globals = @ \cup {node.id}]
                   [] node.kind = "Store" -> [sofar EXCEPT !.locals = @ \cup {node.id}]
                   [] node.kind = "Attr" -> sofar
                   [] node.kind \in {"Def", "Class"} ->
                        [sofar EXCEPT
                            !.locals = @ \cup {node.id},
                            !.nested = @ \cup GlobalsFound(VarFinderVisit(node.body,
                                                                          Vars({}, Params, {})))]
         IN  VarFinderVisit(Tail(block), Step(VarFinderVisit(node.defaults, found)))

\* find_globals(node) of a module
FindGlobalNames(block) == GlobalsFound(VarFinderVisit(block, Vars({}, {}, {})))

-----------------------------------------------------------------------------
(* The scope of a caller: CallInfo and _get_scope_from_frame                *)
(* (_inspect_utils.py), Scope.toplevel (_scope.py)                          *)

\* a frame of the call stack: the name of its code object and its module
Frame(co_name, module) == [co_name |-> co_name, module |-> module]

\* _module(frame)
ModuleOf(frame) == frame.module

\* _EXCLUDED_MODULES
EXCLUDED_MODULES == {"pytest"}

\* what determining a scope gives: a Scope, or the exception that reaches the
\* caller; unread tells that the source of a frame could not be read on the way
ScopeOf(module, def_source, scopelist, unread) == [st |-> "scope", module |-> module, def_source |-> def_source, scopelist |-> scopelist, exc |-> "", unread |-> unread]
RaisedOf(exc) == [st |-> "raised", module |-> "", def_source |-> "", scopelist |-> <<>>, exc |-> exc, unread |-> TRUE]

\* inspect.getsource(frame): the source, or OSError when it cannot be retrieved
InspectGetsource(readable, module) == IF readable[module] THEN "ok" ELSE "OSError"

\* _source_utils.get_source(filename): the source, or FileNotFoundError
GetSource(readable, module) == IF readable[module] THEN "ok" ELSE "FileNotFoundError"

\* _source_utils.get_module_source(module): the source, or TypeError for a
\* module without source
GetModuleSource(readable, module) == IF readable[module] THEN "ok" ELSE "TypeError"

\* Scope.toplevel(module)
ScopeToplevel(readable, module) ==
    IF GetModuleSource(readable, module) = "ok" THEN ScopeOf(module, "source", <<>>, FALSE)
    ELSE IF GetModuleSource(readable, module) = "TypeError" THEN ScopeOf(module, "", <<>>, TRUE)
    ELSE RaisedOf(GetModuleSource(readable, module))

\* get_segment_from_frame(parent, 'call', return_locs=True): reads the source of
\* the parent's file and looks for the call in it
GetSegmentFromFrame(readable, parent, call_found) ==
    IF GetSource(readable, ModuleOf(parent)) # "ok" THEN GetSource(readable, ModuleOf(parent))
    ELSE IF ~call_found THEN "RuntimeError"
    ELSE "ok"

\* a toplevel scope given because a read failed
Degraded(readable, module) == [ScopeToplevel(readable, module) EXCEPT !.unread = TRUE]

\* _get_scope_from_frame up to the reads: the early returns and the two guarded
\* reads; "dive" when the scope is to be made from the source
GetScopeEarly(readable, stack, i, call_found) ==
    IF \/ ModuleOf(stack[i]) \in EXCLUDED_MODULES
       \/ i = Len(stack)
       \/ ModuleOf(stack[i]) = "__main__" /\ ModuleOf(stack[i + 1]) # ModuleOf(stack[i])
       \/ stack[i].co_name = "<module>"
    THEN ScopeToplevel(readable, ModuleOf(stack[i]))
    ELSE IF GetSegmentFromFrame(readable, stack[i + 1], call_found)
                \in {"RuntimeError", "FileNotFoundError", "AttributeError", "OSError"}
    THEN Degraded(readable, ModuleOf(stack[i]))
    ELSE IF GetSource(readable, ModuleOf(stack[i])) = "FileNotFoundError"
    THEN Degraded(readable, ModuleOf(stack[i]))
    ELSE IF GetSource(readable, ModuleOf(stack[i])) # "ok"
    THEN RaisedOf(GetSource(readable, ModuleOf(stack[i])))
    ELSE [ScopeOf(ModuleOf(stack[i]), "source", <<>>, FALSE) EXCEPT !.st = "dive"]

\* _get_scope_from_frame(frame, drop_n) for the frame stack[i], whose parent is
\* stack[i + 1] (drop_n = 0)
RECURSIVE GetScopeFromFrame(_, _, _, _)
GetScopeFromFrame(readable, stack, i, call_found) ==
    IF Only({r.st : r \in {GetScopeEarly(readable, stack, i, call_found)}}) # "dive"
    THEN GetScopeEarly(readable, stack, i, call_found)
    ELSE Only({IF calling_scope.st = "raised" THEN calling_scope
               ELSE ScopeOf(ModuleOf(stack[i]), "source", <<stack[i].co_name>>,
                            calling_scope.unread)
               : calling_scope \in {GetScopeFromFrame(readable, stack, i + 1, call_found)}})

\* CallInfo._determine_scope(caller_frameinfo, drop_n, ignore_scope), the caller
\* being stack[1]
DetermineScope(readable, stack, ignore_scope, call_found) ==
    IF stack[1].co_name = "<module>" \/ ignore_scope
    THEN IF InspectGetsource(readable, ModuleOf(stack[1])) = "ok"
         THEN ScopeOf(ModuleOf(stack[1]), "source", <<>>, FALSE)
         ELSE RaisedOf(InspectGetsource(readable, ModuleOf(stack[1])))
    ELSE GetScopeFromFrame(readable, stack, 1, call_found)

-----------------------------------------------------------------------------
(* Scope.from_source along a chain of calls (_scope.py), as                 *)
(* _get_scope_from_frame (_inspect_utils.py) calls it for a frame, with the *)
(* scope of the parent frame as calling_scope                               *)

\* a function definition of the module: full_name and is_dynamic_method as
\* from_source sets them, args its ast.arguments, body the targets of its statements
Function(full_name, is_dynamic_method, args, body) ==
    [full_name |-> full_name, is_dynamic_method |-> is_dynamic_method, args |-> args, body |-> body]

\* a frame of the chain: the function it runs and the call by which its parent called it
ChainFrame(function, call) == [function |-> function, call |-> call]

\* a node that _SetAttribute has not visited
NoTag == [st |-> "untagged"]

\* an assignment statement `target = value`; tag is value._scope
AssignNode(target, value, tag) == [target |-> target, value |-> value, tag |-> tag]

\* a Scope with its scopelist of pairs (full_name, module node), or the exception raised
ChainScope(st, module, scopelist) == [st |-> st, module |-> module, scopelist |-> scopelist]

\* Signature.remove_fist: the name removed, and the signature without it
RemoveFist(signature) ==
    IF signature.argnames # <<>>
    THEN <<Head(signature.argnames), [signature EXCEPT !.argnames = Tail(@)]>>
    ELSE <<Head(signature.pos_only_argnames), [signature EXCEPT !.pos_only_argnames = Tail(@)]>>

\* an assignment whose value would be left as it was parsed
SetNoAttribute(assignment, scope) == assignment

\* _SetAttribute('_scope', calling_scope).visit(assignment.value)
SetAttribute(assignment, scope) == [assignment EXCEPT !.tag = scope]

\* Scope.from_source for a line in the body of `function` (function_defs = [function],
\* drop_n = 0), called by call_source
FromSourceOf(function, call, module, calling_scope) ==
    LET parsed == ParseDefArgs(function.args)
        removed == RemoveFist(parsed)
        signature == IF function.is_dynamic_method THEN removed[2] ELSE parsed
        assignments == GetCallAssignments(signature, call)
        self_assignment ==
            IF function.is_dynamic_method
            THEN <<SetAttribute(AssignNode(removed[1], <<"please_do_not_need_a_self_attribute">>,
                                           NoTag), calling_scope)>>
            ELSE <<>>
        call_assignments ==
            self_assignment \o
            [i \in 1..Len(assignments.res) |->
                SetAttribute(AssignNode(assignments.res[i][1], assignments.res[i][2], NoTag),
                             calling_scope)]
    IN  IF assignments.st # "ok" THEN ChainScope(assignments.st, module, <<>>)
        ELSE ChainScope("scope", module,
                        <<[name |-> function.full_name,
                           body |-> call_assignments \o
                                    [i \in 1..Len(function.body) |->
                                        AssignNode(function.body[i], <<>>, NoTag)]]>>)

\* _get_scope_from_frame(frame, 0) for the frame chain[i] of a module whose source
\* can be read; the parent of the last frame is None
RECURSIVE GetScopeFromChain(_, _, _)
GetScopeFromChain(chain, i, module) ==
    IF i = Len(chain) \/ chain[i].function.full_name = "<module>"
    THEN ChainScope("scope", module, <<>>)
    ELSE Only({IF calling_scope.st # "scope" THEN calling_scope
               ELSE FromSourceOf(chain[i].function, chain[i].call, module, calling_scope)
               : calling_scope \in {GetScopeFromChain(chain, i + 1, module)}})

-----------------------------------------------------------------------------
(* Strings with pending replacements and cut (_source_utils.py)            *)
(* A text is a sequence of lines, a line a sequence of characters; lines    *)
(* and columns count from 0, as in cut.                                     *)

\* ReplaceString(orig, repl, from_line, to_line, from_col, to_col)
ReplaceString(orig, repl, from_line, to_line, from_col, to_col) == [orig |-> orig, repl |-> repl, from_line |-> from_line, to_line |-> to_line, from_col |-> from_col, to_col |-> to_col]

\* ReplaceStrings(rss): replacements of one original text
ReplaceStrings(orig, rss) == [orig |-> orig, rss |-> rss]

\* the boundary (line, col) lies strictly inside the replaced span
StrictlyInside(rs, line, col) ==
    /\ rs.from_line = line
    /\ rs.to_line = line
    /\ rs.from_col < col
    /\ col < rs.to_col

\* a line with one replaced span spliced in
Splice(chars, rs) == SubSeq(chars, 1, rs.from_col) \o rs.repl \o SubSeq(chars, rs.to_col + 1, Len(chars))

\* a line with every replacement of the set spliced in, the rightmost first
RECURSIVE SpliceAll(_, _)
SpliceAll(chars, spans) ==
    IF spans = {} THEN chars
    ELSE \* bind by value
         Only({SpliceAll(Splice(chars, rs), spans \ {rs})
               : rs \in {CHOOSE r \in spans : \A t \in spans : t.from_col <= r.from_col}})

\* the text with the replacements made
Replaced(rstrings) ==
    [l \in 1..Len(rstrings.orig) |->
        SpliceAll(rstrings.orig[l],
                  {rstrings.rss[i] : i \in {j \in 1..Len(rstrings.rss) : rstrings.rss[j].from_line = l - 1}})]

\* a column translation that would ignore the replacements
Unshifted(rss, line, col) == col

\* the column of the replaced text that stands for (line, col) of the original:
\* every replacement that ends at or before col moves it by the difference of
\* the lengths
RECURSIVE Shifted(_, _, _)
Shifted(rss, line, col) ==
    IF rss = <<>> THEN col
    ELSE Shifted(Tail(rss), line, col)
         + (IF Head(rss).from_line = line /\ Head(rss).to_col <= col
            THEN Len(Head(rss).repl) - (Head(rss).to_col - Head(rss).from_col)
            ELSE 0)

\* the lines a..b of a text, each followed by a newline
RECURSIVE WholeLines(_, _, _)
WholeLines(lines, a, b) ==
    IF a > b THEN <<>> ELSE lines[a + 1] \o <<"\n">> \o WholeLines(lines, a + 1, b)

\* cut of a plain text
CutText(lines, from_line, to_line, from_col, to_col) ==
    IF from_line = to_line THEN SubSeq(lines[from_line + 1], from_col + 1, to_col)
    ELSE SubSeq(lines[from_line + 1], from_col + 1, Len(lines[from_line + 1])) \o <<"\n">>
         \o WholeLines(lines, from_line + 1, to_line - 1)
         \o SubSeq(lines[to_line + 1], 1, to_col)

\* what cut gives: the text, or ValueError
CutResult(st, text) == [st |-> st, text |-> text]

\* cut(rstrings, from_line, to_line, from_col, to_col)
Cut(rstrings, from_line, to_line, from_col, to_col) ==
    IF \E i \in 1..Len(rstrings.rss) :
          \/ StrictlyInside(rstrings.rss[i], from_line, from_col)
          \/ StrictlyInside(rstrings.rss[i], to_line, to_col)
    THEN CutResult("ValueError", <<>>)
    ELSE CutResult("returned",
                   CutText(Replaced(rstrings), from_line, to_line,
                           Shifted(rstrings.rss, from_line, from_col),
                           Shifted(rstrings.rss, to_line, to_col)))

-----------------------------------------------------------------------------
(* Serializer (_serializer.py).  A string is a sequence of tokens: the      *)
(* prefix SAVETHIS_VALUE_, decimal digits, names and punctuation.           *)
(***************************************************************************)

DigitChars == <<"0", "1", "2", "3", "4", "5", "6", "7", "8", "9">>

\* str(n) of a number that is not negative
RECURSIVE Str(_)
Str(n) == IF n < 10 THEN <<DigitChars[n + 1]>> ELSE Str(n \div 10) \o <<DigitChars[(n % 10) + 1]>>

\* what Serializer.__init__ sets: self.index and self._varname (NoName for None)
Serializer(index, varname) == [index |-> index, varname |-> varname]

\* the property Serializer.varname
Varname(serializer) ==
    IF serializer.varname # NoName THEN serializer.varname
    ELSE <<"SAVETHIS_VALUE_">> \o Str(serializer.index)

\* the name of the file SimpleSerializer.save writes, f'/{self.i}{self.file_suffix}':
\* no instance has an attribute i, self.i is the class attribute Serializer.i
FileName(serializer, class_i) == <<"/">> \o Str(class_i) \o <<".json">>

\* sub in s, for strings
IsSubstring(sub, s) ==
    \E k \in 0..(Len(s) - Len(sub)) : SubSeq(s, k + 1, k + Len(sub)) = sub

\* the source of a node that uses a value stored under `name`: `y = f(name)`
UserSource(name) == <<"y", " ", "=", " ", "f", "(">> \o name \o <<")">>

\* the source of the loader node, f'{self.varname} = {self.load_name}({complete_path})'
LoaderSource(serializer, class_i) ==
    Varname(serializer) \o <<" ", "=", " ", "load", "(">> \o FileName(serializer, class_i) \o <<")">>

PathlibSource == <<"import", " ", "pathlib">>

\* Serializer.save_all: the serializers of the store on which save is called,
\* `serializer.varname in codenode.source` for a node of the graph as it was given
Invoked(sources, stored) ==
    {k \in 1..Len(stored) : \E source \in sources : IsSubstring(Varname(stored[k]), source)}

\* SimpleSerializer.save: the nodes of the loader graph
LoaderGraph(serializer, class_i) == {LoaderSource(serializer, class_i), PathlibSource}

\* SimpleSerializer.save: the file written
Written(serializer, class_i) == [ser |-> serializer.index, file |-> FileName(serializer, class_i)]

-----------------------------------------------------------------------------
(* Each specification below exercises one part of the program and keeps the *)
(* variables of the other parts at rest.                                    *)

FindPending == Result("pending", NotFound, NoScopedName)

FindIdle ==
    /\ fbody = <<>>
    /\ fquery = NoScopedName
    /\ fres = FindPending
    /\ fsteps = 0

ScopePending == Fail("pending", <<>>)

ScopeIdle ==
    /\ senv = Env(<<>>, Module("none", FALSE, <<>>), <<>>)
    /\ squery = NoScopedName
    /\ sres = ScopePending

NoCall == [op |-> "none", a |-> Scope(NoModule, <<>>, None), b |-> Scope(NoModule, <<>>, None),
           res |-> <<>>]

RegIdle ==
    /\ scopes = {}
    /\ counts = {}
    /\ rlast = NoCall

\* a function with no argument: the graph without key
NoGraph == <<>>

GraphIdle ==
    /\ gbody = <<>>
    /\ gstart = {}
    /\ graph = NoGraph
    /\ gorder = <<>>
    /\ todo = <<>>
    /\ enq = <<>>
    /\ gstatus = "init"
    /\ gfailed = NoScopedName
    /\ out = <<>>

NoCallArgs == Call(<<>>, <<>>, NoText, NoParam, TRUE, FALSE)

SigIdle ==
    /\ cdef = Arguments(<<>>, <<>>, <<>>, <<>>, <<>>, NoParam, NoParam)
    /\ csig = ParseDefArgs(Arguments(<<>>, <<>>, <<>>, <<>>, <<>>, NoParam, NoParam))
    /\ ccall = NoCallArgs
    /\ cres = Assignments("idle", <<>>)

RenameIdle ==
    /\ rsrc = <<>>
    /\ rres = [st |-> "idle", rename_locals |-> TRUE, out |-> <<>>]

CallScopeIdle ==
    /\ kstack = <<>>
    /\ kread = <<>>
    /\ kres = [op |-> "idle", res |-> RaisedOf("")]

CutIdle ==
    /\ tsrc = ReplaceStrings(<<>>, <<>>)
    /\ tcut = <<>>
    /\ tres = CutResult("idle", <<>>)

GlobalsIdle ==
    /\ nblock = <<>>
    /\ nres = [st |-> "idle", globals |-> {}]

\* the class attributes as the class statement sets them: i = 0, store = []
SerializerIdle ==
    /\ serializer_i = 0
    /\ store = <<>>
    /\ saving = {}
    /\ codegraph = {}
    /\ invoked = {}
    /\ written = {}

-----------------------------------------------------------------------------
(* SpecFind: find_scopedname_in_source on every small body *)

FindShapes ==
    { AssignStmt({A}, {}),
      FunctionDefStmt(F, <<AssignStmt({A}, {})>>, {}),
      AsyncFunctionDefStmt(F, <<AssignStmt({A}, {})>>, {}),
      ClassDefStmt(A, <<>>, {}),
      ImportStmt(<<Alias(A, NoName), Alias(AB, NoName)>>),
      ImportStmt(<<Alias(AB, NoName)>>),
      ImportFromStmt(<<Alias(C, A)>>),
      WithStmt(<<ItemName(A)>>, <<>>),
      WithStmt(<<ItemTuple({A, B})>>, <<>>),
      WithStmt(<<ItemTuple({B, C})>>, <<AssignStmt({A}, {})>>),
      WithStmt(<<ItemNone, ItemName(C)>>, <<FunctionDefStmt(A, <<>>, {})>>),
      IfStmt(<<AssignStmt({A}, {}), AssignStmt({A}, {})>>) }

FindBodies == UNION {[1..n -> FindShapes] : n \in 0..MaxStmts}

FindNames == {A, AB}

\* ceilings: none, the start of a line, or column 4 of a line that holds a statement
FindCeilings ==
    {NoPos} \cup {<<l, 0>> : l \in 1..(MaxStmts + 1)} \cup {<<l, 4>> : l \in 1..MaxStmts}

InitFind ==
    /\ fbody \in {Layout(b) : b \in FindBodies}
    /\ fquery \in {ScopedName(n, 0, p, -1) : n \in FindNames, p \in FindCeilings}
    /\ fres = FindPending
    /\ fsteps = 0
    /\ ScopeIdle
    /\ RegIdle
    /\ GraphIdle
    /\ SigIdle
    /\ RenameIdle
    /\ CallScopeIdle
    /\ CutIdle
    /\ SerializerIdle
    /\ GlobalsIdle

\* a call of find_scopedname_in_source(scoped_name, source, tree)
FindCall ==
    /\ fres.st = "pending"
    /\ fres' = FindScopedNameInSource(fquery, fbody)
    /\ fsteps' = fsteps + 1
    /\ UNCHANGED <<fbody, fquery, findRest>>

\* the same name resolved again, with the pos of the returned ScopedName as the
\* new ceiling
FindAgain ==
    /\ fres.st = "found"
    /\ fsteps <= Len(fbody)
    /\ \E again \in {[fquery EXCEPT !.pos = fres.name.pos]} :
          /\ fquery' = again
          /\ fres' = FindScopedNameInSource(again, fbody)
    /\ fsteps' = fsteps + 1
    /\ UNCHANGED <<fbody, findRest>>

NextFind ==
    \/ FindCall
    \/ FindAgain

SpecFind == InitFind /\ [][NextFind]_vars

-----------------------------------------------------------------------------
(* SpecScope: find_in_scope on every small environment *)

\* the bodies a level, a module or a cell is drawn from
ScopeBodies ==
    { <<>>,
      Layout(<<AssignStmt({A}, {})>>),
      Layout(<<ImportStmt(<<Alias(A, NoName)>>)>>),
      Layout(<<WithStmt(<<ItemTuple({B, C})>>, <<>>)>>) }

ScopeLevels == UNION {[1..n -> ScopeBodies] : n \in 0..MaxLevels}

ScopeCells == UNION {[1..n -> ScopeBodies] : n \in 0..MaxCells}

\* the history matters only to a __main__ module without source
ScopeEnvs ==
    {Env(l, Module("none", FALSE, <<>>), <<>>) : l \in ScopeLevels}
    \cup {Env(l, Module(k, TRUE, b), <<>>) :
            l \in ScopeLevels, k \in {"main", "other"}, b \in ScopeBodies}
    \cup {Env(l, Module("other", FALSE, <<>>), <<>>) : l \in ScopeLevels}
    \cup {Env(l, Module("main", FALSE, <<>>), c) : l \in ScopeLevels, c \in ScopeCells}

ScopeQueries ==
    {ScopedName(A, 0, p, c) : p \in {NoPos, <<1, 0>>, <<2, 0>>}, c \in -1..(MaxCells - 1)}

InitScope ==
    /\ senv \in ScopeEnvs
    /\ squery \in ScopeQueries
    /\ sres = ScopePending
    /\ FindIdle
    /\ RegIdle
    /\ GraphIdle
    /\ SigIdle
    /\ RenameIdle
    /\ CallScopeIdle
    /\ CutIdle
    /\ SerializerIdle
    /\ GlobalsIdle

\* a call of find_in_scope(scoped_name)
FindInScopeCall ==
    /\ sres.st = "pending"
    /\ sres' = FindInScope(squery, senv)
    /\ UNCHANGED <<senv, squery, scopeRest>>

NextScope == FindInScopeCall

SpecScope == InitScope /\ [][NextScope]_vars

-----------------------------------------------------------------------------
(* SpecRegistry: Scope objects are made, printed and compared *)

\* the scopelists (names, innermost first) from_source builds
Scopelists == { <<FName>>, <<F1Name>>, <<GName, FName>> }

\* the variable name given to unscoped
VarName == <<"v">>

InitRegistry ==
    /\ RegIdle
    /\ FindIdle
    /\ ScopeIdle
    /\ GraphIdle
    /\ SigIdle
    /\ RenameIdle
    /\ CallScopeIdle
    /\ CutIdle
    /\ SerializerIdle
    /\ GlobalsIdle

\* a new object with the fields of `scope`: the n-th one alive with these fields
Object(scope) ==
    [scope EXCEPT !.n = 1 + Cardinality({s \in scopes : [s EXCEPT !.n = 0] = scope})]

\* cls(module, def_source, scopelist, id_); what an earlier call gave is out of date
Make(scope) ==
    /\ scopes' = scopes \cup {Object(scope)}
    /\ counts' = Register(counts, scope)
    /\ rlast' = NoCall
    /\ UNCHANGED regRest

\* Scope.from_source for a frame inside function definitions, called at a call site
FromSource ==
    /\ Cardinality(scopes) < MaxScopes
    /\ \E l \in Scopelists, site \in Sites : Make(Scope(OtherModule, l, site))

\* Scope.toplevel(module); also from_source outside every function definition
Toplevel ==
    /\ Cardinality(scopes) < MaxScopes
    /\ \E m \in {MainModule, OtherModule} : Make(Scope(m, <<>>, None))

\* Scope.empty()
Empty ==
    /\ Cardinality(scopes) < MaxScopes
    /\ Make(Scope(NoModule, <<>>, None))

\* Scope.from_level(i), Scope.up() (i = 1) and Scope.global_() (i = len)
FromLevel ==
    /\ Cardinality(scopes) < MaxScopes
    /\ \E s \in scopes, i \in 0..MaxLevels :
        Make(Scope(s.module, SubSeq(s.scopelist, i + 1, Len(s.scopelist)), None))

\* a.unscoped(v) and b.unscoped(v) of two objects, one after the other
UnscopedCall ==
    \E a \in scopes, b \in scopes :
        /\ a # b
        /\ rlast' = [op |-> "unscoped", a |-> a, b |-> b,
                     res |-> <<Unscoped(a, VarName, counts), Unscoped(b, VarName, counts)>>]
        /\ UNCHANGED <<scopes, counts, regRest>>

\* a == b of two objects
EqCall ==
    \E a \in scopes, b \in scopes :
        /\ a # b
        /\ rlast' = [op |-> "eq", a |-> a, b |-> b, res |-> <<Eq(a, b, counts)>>]
        /\ UNCHANGED <<scopes, counts, regRest>>

NextRegistry ==
    \/ FromSource
    \/ Toplevel
    \/ Empty
    \/ FromLevel
    \/ UnscopedCall
    \/ EqCall

SpecRegistry == InitRegistry /\ [][NextRegistry]_vars

-----------------------------------------------------------------------------
(* SpecGraph: build_codegraph and dumps on every small module *)

\* the global statements a module is made of
GraphShapes ==
    { AssignStmt({A}, {}),
      AssignStmt({A}, {A}),
      AssignStmt({B}, {A}),
      AssignStmt({A}, {B}),
      FunctionDefStmt(C, <<>>, {A, B, LenName}),
      ImportStmt(<<Alias(B, NoName)>>) }

GraphBodies == {Layout(shapes) : shapes \in UNION {[1..n -> GraphShapes] : n \in 0..MaxStmts}}

\* the names the evaluable representation of the object may use
GraphStarts == { {C}, {B}, {A, B} }

InitGraph ==
    /\ GraphIdle
    /\ FindIdle
    /\ ScopeIdle
    /\ RegIdle
    /\ SigIdle
    /\ RenameIdle
    /\ CallScopeIdle
    /\ CutIdle
    /\ SerializerIdle
    /\ GlobalsIdle

\* build_codegraph(obj) called in a module: code_graph.add_startnodes(evaluable_repr,
\* name, scope); the start node is in the graph and its globals are the first worklist
AddStartnodes ==
    /\ gstatus = "init"
    /\ \E body \in GraphBodies, uses \in GraphStarts :
          /\ gbody' = body
          /\ gstart' = uses
          /\ \E key \in {StartKey(body)} : \E node \in {StartNode(uses, body)} :
                /\ graph' = (key :> node)
                /\ gorder' = <<key>>
                /\ \E first \in Orderings(NewGlobals(node.globals_, {key}, <<>>)) :
                      /\ todo' = first
                      /\ enq' = first
    /\ gstatus' = "building"
    /\ UNCHANGED <<gfailed, out, graphRest>>

\* CodeGraph.build, one turn of the loop: the next name is resolved, its node is
\* put in the graph, and then the globals of the node that are new are enqueued
Resolve ==
    /\ gstatus = "building"
    /\ todo # <<>>
    /\ \E next \in {Head(todo)} : \E r \in {FindCodenode(next, gbody)} :
           /\ r.st = "found"
           /\ graph' = graph @@ (next :> r.node)
           /\ gorder' = Append(gorder, next)
           /\ \E new \in Orderings(NewGlobals(r.node.globals_, DOMAIN graph \cup {next},
                                               Tail(todo))) :
                 /\ todo' = Tail(todo) \o new
                 /\ enq' = enq \o new
    /\ UNCHANGED <<gbody, gstart, gstatus, gfailed, out, graphRest>>

\* CodeGraph.build, a turn of the loop in which the name finder raises: the error
\* leaves build and build_codegraph, the caller gets no graph
ResolveFails ==
    /\ gstatus = "building"
    /\ todo # <<>>
    /\ \E next \in {Head(todo)} : \E r \in {FindCodenode(next, gbody)} :
           /\ r.st # "found"
           /\ gstatus' = r.st
           /\ gfailed' = next
    /\ graph' = NoGraph
    /\ gorder' = <<>>
    /\ todo' = <<>>
    /\ UNCHANGED <<gbody, gstart, enq, out, graphRest>>

\* CodeGraph.build returns the graph when the worklist is empty
BuildReturns ==
    /\ gstatus = "building"
    /\ todo = <<>>
    /\ gstatus' = "built"
    /\ UNCHANGED <<gbody, gstart, graph, gorder, todo, enq, gfailed, out, graphRest>>

\* CodeGraph.dumps
Dumps ==
    /\ gstatus = "built"
    /\ out' = TopSort(graph, gorder)
    /\ gstatus' = "dumped"
    /\ UNCHANGED <<gbody, gstart, graph, gorder, todo, enq, gfailed, graphRest>>

NextGraph ==
    \/ AddStartnodes
    \/ Resolve
    \/ ResolveFails
    \/ BuildReturns
    \/ Dumps

SpecGraph == InitGraph /\ [][NextGraph]_vars

\* the loop of build runs on, and dumps is called on the graph that was built
SpecGraphFair == SpecGraph /\ WF_vars(NextGraph)

-----------------------------------------------------------------------------
(* SpecGraphBlocks: build_codegraph on modules that also hold if blocks *)

\* the statements of SpecGraph, and `if c: a = 1; a = run(a)`
GraphBlockShapes == GraphShapes \cup {IfStmt(<<AssignStmt({A}, {}), AssignStmt({A}, {A})>>)}

GraphBlockBodies == {Layout(shapes) : shapes \in UNION {[1..n -> GraphBlockShapes] : n \in 0..MaxStmts}}

\* build_codegraph(obj) called in a module with blocks
AddStartnodesBlocks ==
    /\ gstatus = "init"
    /\ \E body \in GraphBlockBodies, uses \in GraphStarts :
          /\ gbody' = body
          /\ gstart' = uses
          /\ \E key \in {StartKey(body)} : \E node \in {StartNode(uses, body)} :
                /\ graph' = (key :> node)
                /\ gorder' = <<key>>
                /\ \E first \in Orderings(NewGlobals(node.globals_, {key}, <<>>)) :
                      /\ todo' = first
                      /\ enq' = first
    /\ gstatus' = "building"
    /\ UNCHANGED <<gfailed, out, graphRest>>

NextGraphBlocks ==
    \/ AddStartnodesBlocks
    \/ Resolve
    \/ ResolveFails
    \/ BuildReturns
    \/ Dumps

SpecGraphBlocks == InitGraph /\ [][NextGraphBlocks]_vars

-----------------------------------------------------------------------------
(* SpecInject: SimpleSerializer.save injects loader statements in a built graph *)

\* pos='injected'; the positions of statements have lines from 1 on
InjectedPos == <<0, 0>>

PathlibName == <<"pathlib">>
\* Serializer.varname of two serializers
SaveName == <<"SAVETHIS_VALUE_0">>
OtherSaveName == <<"SAVETHIS_VALUE_1">>
\* load_function.__name__ of a load function the graph was not built for
LoadName == <<"load">>

\* CodeNode(source=f'{self.varname} = {self.load_name}({complete_path})',
\*          globals_={ScopedName(self.load_name, self.scope)}, scope=self.scope,
\*          pos='injected')
LoaderNode(varname, load_names, scope) ==
    CodeNode(InjectedPos, "Assign", {ScopedName(l, scope, NoPos, -1) : l \in load_names},
             ScopedName(varname, scope, InjectedPos, -1))

\* CodeNode(source='import pathlib', scope=SCOPE, pos='injected')
PathlibNode(scope) ==
    CodeNode(InjectedPos, "Import", {}, ScopedName(PathlibName, scope, InjectedPos, -1))

\* the nodes that the serializers of a module inject
InjectedNodes(uses, body) ==
    { LoaderNode(SaveName, uses, Global(CallerEnv(body))),
      LoaderNode(OtherSaveName, {LoadName}, Global(CallerEnv(body))),
      PathlibNode(Global(CallerEnv(body))) }

\* an inject that would put the node in an empty graph
InjectAlone(g, node) == (node.name :> node)

\* CodeGraph.inject: the node is stored under its name, nothing else is done
Inject(g, node) == (node.name :> node) @@ g

\* code_graph.inject(node) on a graph that build has returned
InjectCall ==
    /\ gstatus = "built"
    /\ \E node \in InjectedNodes(gstart, gbody) :
          /\ graph' = Inject(graph, node)
          /\ gorder' = IF node.name \in Elements(gorder) THEN gorder
                        ELSE Append(gorder, node.name)
    /\ UNCHANGED <<gbody, gstart, todo, enq, gstatus, gfailed, out, graphRest>>

NextInject ==
    \/ AddStartnodes
    \/ Resolve
    \/ ResolveFails
    \/ BuildReturns
    \/ InjectCall
    \/ Dumps

SpecInject == InitGraph /\ [][NextInject]_vars

-----------------------------------------------------------------------------
(* SpecSig: get_call_assignments of every small signature on every small call *)

\* the text of the i-th positional argument of a call, of a keyword argument, of a default
PosText(i) == <<"pos", ToString(i)>>
KwText(name) == <<"kwval_", name>>
DefaultText(name) == <<"default_", name>>

\* the elements of the starred argument of a call, and its text
StarElements == <<<<"star1">>, <<"star2">>>>
ListText(elements) == <<"[">> \o Join(<<", ">>, elements) \o <<"]">>

\* the name of the ** argument of a call
StarKwargsName == "kwds"

\* function definitions def f(p, /, a, b=.., *args, k=.., **kw) with some parts left out
SigDefs ==
    { Arguments(po, ar[1], ar[2], ko[1], ko[2], va, kw) :
        po \in {<<>>, <<"p">>},
        ar \in { <<<<>>, <<>>>>,
                 <<<<"a">>, <<>>>>,
                 <<<<"a">>, <<DefaultText("a")>>>>,
                 <<<<"a", "b">>, <<>>>>,
                 <<<<"a", "b">>, <<DefaultText("b")>>>> },
        ko \in { <<<<>>, <<>>>>,
                 <<<<"k">>, <<NoText>>>>,
                 <<<<"k">>, <<DefaultText("k")>>>> },
        va \in {NoParam, "args"},
        kw \in {NoParam, "kw"} }

\* the names a call may pass by keyword: a regular, a keyword-only and a positional-only
\* parameter, and a name that is no parameter
KeywordNames == {"a", "k", "p", "x"}

KeywordArgs ==
    {<<>>} \cup {<<<<n, KwText(n)>>>> : n \in KeywordNames}
           \cup {<<<<p[1], KwText(p[1])>>, <<p[2], KwText(p[2])>>>> :
                    p \in {q \in KeywordNames \X KeywordNames : q[1] # q[2]}}

SigCalls ==
    { Call([i \in 1..n |-> PosText(i)], ka, sa, sk, op[1], op[2]) :
        n \in 0..MaxPosArgs,
        ka \in KeywordArgs,
        sa \in {NoText, ListText(StarElements)},
        sk \in {NoParam, StarKwargsName},
        op \in {<<TRUE, FALSE>>, <<FALSE, FALSE>>, <<TRUE, TRUE>>} }

InitSig ==
    /\ SigIdle
    /\ FindIdle
    /\ ScopeIdle
    /\ RegIdle
    /\ GraphIdle
    /\ RenameIdle
    /\ CallScopeIdle
    /\ CutIdle
    /\ SerializerIdle
    /\ GlobalsIdle

\* Scope.from_source: signature = _parse_def_args(args, def_source)
ParseDef ==
    /\ cres.st = "idle"
    /\ \E args \in SigDefs :
          /\ cdef' = args
          /\ csig' = ParseDefArgs(args)
    /\ cres' = Assignments("pending", <<>>)
    /\ UNCHANGED <<ccall, sigRest>>

\* get_argument_assignments: Signature(*args, **kwargs, ignore_extra_kwargs=True)
Construct ==
    /\ cres.st = "idle"
    /\ \E args \in SigDefs :
          /\ cdef' = args
          /\ csig' = [ParseDefArgs(args) EXCEPT !.ignore_extra_kwargs = TRUE]
    /\ cres' = Assignments("pending", <<>>)
    /\ UNCHANGED <<ccall, sigRest>>

\* signature.get_call_assignments(pos_args, keyword_args, star_args, star_kwargs, ...)
GetCallAssignmentsCall ==
    /\ cres.st = "pending"
    /\ \E call \in SigCalls :
          /\ ccall' = call
          /\ cres' = GetCallAssignments(csig, call)
    /\ UNCHANGED <<cdef, csig, sigRest>>

NextSig ==
    \/ ParseDef
    \/ Construct
    \/ GetCallAssignmentsCall

SpecSig == InitSig /\ [][NextSig]_vars

-----------------------------------------------------------------------------
(* SpecRename: rename on every small module *)

\* the name renamed and its new name
RenameFrom == "aaa"
RenameTo == "xxx"

\* the statements a renamed module is made of
RenameShapes ==
    { \* aaa = ...
      Store(RenameFrom),
      \* ... = aaa
      Load(RenameFrom),
      \* def ooo(): o = aaa
      Def("ooo", <<>>, <<>>, <<Store("o"), Load(RenameFrom)>>),
      \* class CCC with a class-level use, a method with the parameter aaa, a
      \* method named aaa, and a method that uses aaa and self.aaa
      Class("CCC", << Store("o"), Load(RenameFrom),
                      Def("__init__", <<"self", RenameFrom>>, <<>>,
                          <<Attr(RenameFrom), Load(RenameFrom)>>),
                      Def(RenameFrom, <<"self">>, <<>>, <<Attr(RenameFrom)>>),
                      Def("bbb", <<"self">>, <<>>, <<Load(RenameFrom), Attr(RenameFrom)>>) >>),
      \* def bbb(aaa): aaa = 1; def ccc(bbb): return 1 + aaa
      Def("bbb", <<RenameFrom>>, <<>>,
          <<Store(RenameFrom), Def("ccc", <<"bbb">>, <<>>, <<Load(RenameFrom)>>)>>),
      \* def ccc(): def ddd(): return aaa; return ddd
      Def("ccc", <<>>, <<>>, <<Def("ddd", <<>>, <<>>, <<Load(RenameFrom)>>), Load("ddd")>>),
      \* def fff(aaa, bbb=aaa): return x
      Def("fff", <<RenameFrom, "bbb">>, <<Load(RenameFrom)>>, <<Load("x")>>),
      \* [aaa for aaa in bla]
      Comp(RenameFrom, <<Load("bla")>>, <<Load(RenameFrom)>>),
      \* def aaa(): ...
      Def(RenameFrom, <<>>, <<>>, <<>>),
      \* class aaa: ooo = bbb
      Class(RenameFrom, <<Store("ooo"), Load("bbb")>>) }

RenameSources == UNION {[1..n -> RenameShapes] : n \in 0..MaxStmts}

InitRename ==
    /\ RenameIdle
    /\ FindIdle
    /\ ScopeIdle
    /\ RegIdle
    /\ GraphIdle
    /\ SigIdle
    /\ CallScopeIdle
    /\ CutIdle
    /\ SerializerIdle
    /\ GlobalsIdle

\* rename(source, from_='aaa', to='xxx', rename_locals=...)
RenameCall ==
    /\ rres.st = "idle"
    /\ \E source \in RenameSources, rename_locals \in BOOLEAN :
          /\ rsrc' = source
          /\ rres' = [st |-> "renamed", rename_locals |-> rename_locals,
                      out |-> Rename(source, RenameFrom, RenameTo, rename_locals)]
    /\ UNCHANGED renameRest

NextRename ==
    \/ RenameCall

SpecRename == InitRename /\ [][NextRename]_vars

-----------------------------------------------------------------------------
(* SpecCallScope: the scope of the caller on every small call stack *)

\* the modules of the frames; the source of each can or cannot be read
FrameModules == {"m", "__main__", "pytest"}

\* the call stacks, innermost frame first: stack[1] is the frame that asks
CallStacks == UNION {[1..n -> {Frame(c, mod) : c \in {"<module>", "f"}, mod \in FrameModules}] : n \in 1..MaxFrames}

InitCallScope ==
    /\ CallScopeIdle
    /\ FindIdle
    /\ ScopeIdle
    /\ RegIdle
    /\ GraphIdle
    /\ SigIdle
    /\ RenameIdle
    /\ CutIdle
    /\ SerializerIdle
    /\ GlobalsIdle

\* CallInfo('here', ignore_scope=...) called from the frame stack[1]
CallInfoCall ==
    /\ kres.op = "idle"
    /\ \E stack \in CallStacks, readable \in [FrameModules -> BOOLEAN], ignore_scope, call_found \in BOOLEAN :
          /\ kstack' = stack
          /\ kread' = readable
          /\ kres' = [op |-> "CallInfo", res |-> DetermineScope(readable, stack, ignore_scope, call_found)]
    /\ UNCHANGED callScopeRest

\* _get_scope_from_frame(frame, 0) for the frame stack[1]
GetScopeFromFrameCall ==
    /\ kres.op = "idle"
    /\ \E stack \in CallStacks, readable \in [FrameModules -> BOOLEAN], call_found \in BOOLEAN :
          /\ kstack' = stack
          /\ kread' = readable
          /\ kres' = [op |-> "_get_scope_from_frame", res |-> GetScopeFromFrame(readable, stack, 1, call_found)]
    /\ UNCHANGED callScopeRest

\* Scope.toplevel(module) for the module of stack[1]
ToplevelCall ==
    /\ kres.op = "idle"
    /\ \E stack \in CallStacks, readable \in [FrameModules -> BOOLEAN] :
          /\ Len(stack) = 1
          /\ kstack' = stack
          /\ kread' = readable
          /\ kres' = [op |-> "Scope.toplevel", res |-> ScopeToplevel(readable, ModuleOf(stack[1]))]
    /\ UNCHANGED callScopeRest

NextCallScope ==
    \/ CallInfoCall
    \/ GetScopeFromFrameCall
    \/ ToplevelCall

SpecCallScope == InitCallScope /\ [][NextCallScope]_vars

-----------------------------------------------------------------------------
(* SpecChain: the scope of the innermost frame of every small chain of calls *)

NoArguments == Arguments(<<>>, <<>>, <<>>, <<>>, <<>>, NoParam, NoParam)

\* a call with positional and keyword arguments only, as from_source passes it on
PlainCall(pos_args, keyword_args) == Call(pos_args, keyword_args, NoText, NoParam, TRUE, FALSE)

\* def nested_frame(a, b, c=3, **kwargs): f = ...
NestedFrame ==
    Function("nested_frame", FALSE,
             Arguments(<<>>, <<"a", "b", "c">>, <<<<"3">>>>, <<>>, <<>>, NoParam, "kwargs"),
             <<"f">>)

\* def chain_nested(x=1): return nested_frame(x, 1)
ChainNested ==
    Function("chain_nested", FALSE,
             Arguments(<<>>, <<"x">>, <<<<"1">>>>, <<>>, <<>>, NoParam, NoParam), <<>>)

\* def test_chain_nested(self): e = 1; scope = ..., a method of Test_GetScopeFromFrame
TestMethod ==
    Function("Test_GetScopeFromFrame::test_chain_nested", TRUE,
             Arguments(<<>>, <<"self">>, <<>>, <<>>, <<>>, NoParam, NoParam), <<"e", "scope">>)

\* the code of the module itself
ModuleCode == Function("<module>", FALSE, NoArguments, <<>>)

\* the frames: a function of the module with a call of it
ChainFrames ==
    { ChainFrame(NestedFrame, PlainCall(<<<<"x">>, <<"1">>>>, <<>>)),
      ChainFrame(NestedFrame, PlainCall(<<<<"e">>, <<"2">>>>, <<<<"u", <<"123">>>>>>)),
      ChainFrame(ChainNested, PlainCall(<<<<"e">>>>, <<>>)),
      ChainFrame(ChainNested, PlainCall(<<>>, <<>>)),
      ChainFrame(TestMethod, PlainCall(<<>>, <<>>)),
      ChainFrame(ModuleCode, PlainCall(<<>>, <<>>)) }

\* the chains of calls, innermost frame first; the outermost frame of a stack runs
\* the code of a module
Chains == {calls \o <<ChainFrame(ModuleCode, PlainCall(<<>>, <<>>))>> : calls \in UNION {[1..n -> ChainFrames] : n \in 1..MaxFrames}}

InitChain ==
    /\ CallScopeIdle
    /\ FindIdle
    /\ ScopeIdle
    /\ RegIdle
    /\ GraphIdle
    /\ SigIdle
    /\ RenameIdle
    /\ CutIdle
    /\ SerializerIdle
    /\ GlobalsIdle

\* _get_scope_from_frame(f, 0) called in the innermost frame of a chain
ChainCall ==
    /\ kres.op = "idle"
    /\ \E chain \in Chains :
          /\ kstack' = chain
          /\ kres' = [op |-> "chain", res |-> GetScopeFromChain(chain, 1, "m")]
    /\ UNCHANGED <<kread, callScopeRest>>

NextChain ==
    \/ ChainCall

SpecChain == InitChain /\ [][NextChain]_vars

-----------------------------------------------------------------------------
(* SpecCut: cut on a small text with up to two replacements *)

\* the characters of the original text, all different
Letters == <<"a", "b", "c", "d", "e", "f", "g", "h", "i", "j", "k", "l">>

\* the original text: two lines of MaxCols characters
Orig == [l \in 1..2 |-> [c \in 1..MaxCols |-> Letters[(l - 1) * MaxCols + c]]]

\* the replacement texts: shorter than, as long as and longer than a span
ReplTexts == {<<>>, <<"X">>, <<"X", "Y">>}

\* the replacements of a non-empty span of one line
OneReplace == {ReplaceString(Orig, repl, p[1], p[1], p[2], p[3]) : repl \in ReplTexts, p \in {q \in (0..1) \X (0..MaxCols) \X (0..MaxCols) : q[2] < q[3]}}

\* two replacements do not overlap
Disjoint(r, s) == r.from_line # s.from_line \/ r.to_col <= s.from_col \/ s.to_col <= r.from_col

\* the strings cut is called on: the plain text, a ReplaceString, and
\* ReplaceStrings of two replacements
Replacings == {<<>>} \union {<<r>> : r \in OneReplace} \union {<<p[1], p[2]>> : p \in {q \in OneReplace \X OneReplace : Disjoint(q[1], q[2])}}

\* the boundaries of a cut: start not after end
CutBounds == {q \in (0..1) \X (0..1) \X (0..MaxCols) \X (0..MaxCols) : q[1] < q[2] \/ (q[1] = q[2] /\ q[3] <= q[4])}

InitCut ==
    /\ CutIdle
    /\ FindIdle
    /\ ScopeIdle
    /\ RegIdle
    /\ GraphIdle
    /\ SigIdle
    /\ RenameIdle
    /\ CallScopeIdle
    /\ SerializerIdle
    /\ GlobalsIdle

\* cut(rs, from_line, to_line, from_col, to_col)
CutCall ==
    /\ tres.st = "idle"
    /\ \E rss \in Replacings, b \in CutBounds :
          /\ tsrc' = ReplaceStrings(Orig, rss)
          /\ tcut' = b
          /\ tres' = Cut(ReplaceStrings(Orig, rss), b[1], b[2], b[3], b[4])
    /\ UNCHANGED cutRest

NextCut ==
    \/ CutCall

SpecCut == InitCut /\ [][NextCut]_vars

-----------------------------------------------------------------------------
(* SpecSerializer: serializers are made and saved *)

InitSerializer ==
    /\ SerializerIdle
    /\ FindIdle
    /\ ScopeIdle
    /\ RegIdle
    /\ GraphIdle
    /\ SigIdle
    /\ RenameIdle
    /\ CallScopeIdle
    /\ CutIdle
    /\ GlobalsIdle

\* Serializer.__init__(varname=None, store): value() makes a stored serializer,
\* save() of core.py makes one with store=False
SerializerInit ==
    /\ serializer_i < MaxIndex
    /\ \E keep \in BOOLEAN :
          /\ keep => Len(store) < MaxStored
          /\ store' = IF keep THEN Append(store, Serializer(serializer_i, NoName)) ELSE store
    /\ serializer_i' = serializer_i + 1
    /\ UNCHANGED <<saving, codegraph, invoked, written, serializerRest>>

\* SimpleSerializer.save(path) of one serializer, path being the one directory
SaveCall ==
    /\ \E k \in 1..Len(store) :
          written' = written \cup {Written(store[k], serializer_i)}
    /\ Cardinality(written') <= MaxWritten
    /\ UNCHANGED <<serializer_i, store, saving, codegraph, invoked, serializerRest>>

\* the graphs given to save_all: nodes that use values stored by serializers
Codegraphs == SUBSET ({UserSource(Varname(store[k])) : k \in 1..Len(store)} \cup {UserSource(<<"x">>)}) \ {{}}

\* Serializer.save_all(codegraph, path)
SaveAll ==
    /\ \E sources \in Codegraphs :
          /\ saving' = sources
          /\ invoked' = {store[k] : k \in Invoked(sources, store)}
          /\ codegraph' = sources \cup UNION {LoaderGraph(store[k], serializer_i) : k \in Invoked(sources, store)}
          /\ written' = written \cup {Written(store[k], serializer_i) : k \in Invoked(sources, store)}
    /\ Cardinality(written') <= MaxWritten
    /\ UNCHANGED <<serializer_i, store, serializerRest>>

NextSerializer ==
    \/ SerializerInit
    \/ SaveCall
    \/ SaveAll

SpecSerializer == InitSerializer /\ [][NextSerializer]_vars

-----------------------------------------------------------------------------
(* SpecGlobals: find_globals on every small module *)

\* the statements of the modules
GlobalsShapes ==
    { \* a = run(a)
      <<Load("run"), Load("a"), Store("a")>>,
      \* a = 1
      <<Store("a")>>,
      \* b = a
      <<Load("a"), Store("b")>>,
      \* x.a = 2 and x[1] = 2
      <<Load("x"), Attr("a")>>,
      \* def f(p, q=c): c = 1; b = p; i = j
      <<Def("f", <<"p", "q">>, <<Load("c")>>,
            <<Store("c"), Load("p"), Store("b"), Load("j"), Store("i")>>)>>,
      \* def g(): x = a
      <<Def("g", <<>>, <<>>, <<Load("a"), Store("x")>>)>>,
      \* def h(): def g(): x = aaa; aaa = 1
      <<Def("h", <<>>, <<>>,
            <<Def("g", <<>>, <<>>, <<Load("aaa"), Store("x")>>), Store("aaa")>>)>>,
      \* class K: o = a; def m(self): return b
      <<Class("K", <<Load("a"), Store("o"),
                     Def("m", <<"self">>, <<>>, <<Load("b")>>)>>)>> }

RECURSIVE Concat(_)
Concat(seqs) == IF seqs = <<>> THEN <<>> ELSE Head(seqs) \o Concat(Tail(seqs))

GlobalsSources == {Concat(shapes) : shapes \in UNION {[1..n -> GlobalsShapes] : n \in 0..MaxStmts}}

InitGlobals ==
    /\ GlobalsIdle
    /\ FindIdle
    /\ ScopeIdle
    /\ RegIdle
    /\ GraphIdle
    /\ SigIdle
    /\ RenameIdle
    /\ CallScopeIdle
    /\ CutIdle
    /\ SerializerIdle

\* find_globals(ast.parse(source))
FindGlobalsCall ==
    /\ nres.st = "idle"
    /\ \E source \in GlobalsSources :
          /\ nblock' = source
          /\ nres' = [st |-> "found", globals |-> FindGlobalNames(source)]
    /\ UNCHANGED globalsRest

NextGlobals ==
    \/ FindGlobalsCall

SpecGlobals == InitGlobals /\ [][NextGlobals]_vars





-----------------------------------------------------------------------------
(* What a statement binds, read off the statement and not off the finders *)

Max(S) == CHOOSE x \in S : \A y \in S : x >= y

VariantSet(name) == {Variants(name)[i] : i \in 1..Len(name)}

\* the names bound by the header of a with statement
HeaderNames(s) ==
    UNION {IF s.items[i].t = "Name" THEN {s.items[i].id} ELSE s.items[i].elts :
           i \in 1..Len(s.items)}

\* the name an alias binds
AliasBinds(alias) == IF alias.asname = NoName THEN alias.name ELSE alias.asname

\* the names a statement binds in the scope it stands in: the bodies of defs and
\* classes are scopes of their own, the blocks of with and if are not
RECURSIVE BoundNames(_)
BoundNames(s) ==
    CASE s.kind \in {"FunctionDef", "AsyncFunctionDef", "ClassDef"} -> {s.name}
      [] s.kind \in {"Import", "ImportFrom"} ->
            {AliasBinds(s.aliases[i]) : i \in 1..Len(s.aliases)}
      [] s.kind = "Assign" -> s.targets
      [] s.kind \in {"With", "If"} ->
            HeaderNames(s) \cup UNION {BoundNames(s.body[i]) : i \in 1..Len(s.body)}
      [] OTHER -> {}

\* the top-level statements of body that start strictly before the ceiling
Candidates(body, pos) ==
    {i \in 1..Len(body) : pos = NoPos \/ StrictlyBefore(body[i].pos, pos)}

\* the candidates that bind the searched name or one of its dotted prefixes
Binding(body, scoped_name) ==
    {i \in Candidates(body, scoped_name.pos) :
        BoundNames(body[i]) \cap VariantSet(scoped_name.name) # {}}

-----------------------------------------------------------------------------
(* Claims about find_scopedname_in_source (SpecFind) *)

\* C6 without its last clause: a definition that is returned comes from the latest
\* top-level statement before the ceiling that binds the name or a prefix of it
FindReturnsLatestBinding ==
    fres.st = "found" =>
        /\ Binding(fbody, fquery) # {}
        /\ LET s == fbody[Max(Binding(fbody, fquery))]
           IN  /\ fres.node.at[1] = s.pos[1]
               /\ fres.name.name \in BoundNames(s) \cap VariantSet(fquery.name)

\* C6: find_scopedname_in_source returns the definition found in the latest top-level
\* statement that starts strictly before the ceiling (or the latest statement of the
\* body when there is no ceiling) and binds the name or one of its dotted prefixes,
\* and the returned ScopedName has as pos the (line, column) at which the found
\* definition starts in the searched source.
C6_ReturnsLatestBindingAtItsPos ==
    /\ FindReturnsLatestBinding
    /\ fres.st = "found" => fres.name.pos = fres.node.at

\* the with statements among the candidates whose header binds a searched variant
HeaderBinding(body, scoped_name) ==
    {i \in Candidates(body, scoped_name.pos) :
        /\ body[i].kind = "With"
        /\ HeaderNames(body[i]) \cap VariantSet(scoped_name.name) # {}}

\* C8: when the most recent candidate statement that binds the searched name is a
\* with statement binding it in its header (as a plain name or inside a tuple), the
\* search fails with the unsupported-construct error (NotImplementedError) and
\* returns no definition; a with header binding only other names does not make the
\* search fail.
C8_WithHeaderUnsupported ==
    fres.st # "pending" =>
        /\ ( /\ Binding(fbody, fquery) # {}
             /\ Max(Binding(fbody, fquery)) \in HeaderBinding(fbody, fquery) )
           => fres.st = "NotImplementedError"
        /\ HeaderBinding(fbody, fquery) = {} => fres.st \in {"found", "NameNotFound"}

\* the longest of a set of dotted names
Longest(names) == CHOOSE n \in names : \A m \in names : Len(m) <= Len(n)

\* the top-level statement of the body on whose line the found definition stands
FoundIn(body, res) == body[Only({i \in 1..Len(body) : body[i].pos[1] = res.node.at[1]})]

\* C23: for a dotted name the name finder tries the full dotted path first and
\* falls back to shorter prefixes only when the longer ones are not bound: on a
\* candidate statement that binds both a longer and a shorter variant (e.g.
\* `import a, a.b`), the definition returned is the one of the longest bound
\* variant.
C23_LongestBoundVariantReturned ==
    (fres.st = "found" /\ BoundNames(FoundIn(fbody, fres)) \cap VariantSet(fquery.name) # {}) =>
        fres.name.name = Longest(BoundNames(FoundIn(fbody, fres)) \cap VariantSet(fquery.name))

\* the with statements among the candidates that bind a searched variant in their
\* body and not in their header
WithBodyBinding(body, scoped_name) ==
    {i \in Binding(body, scoped_name) :
        /\ body[i].kind = "With"
        /\ HeaderNames(body[i]) \cap VariantSet(scoped_name.name) = {}}

\* C24: a binding that occurs only inside the body of a function or class
\* definition is never returned as the definition of a name searched in the
\* enclosing scope (the search then continues with earlier statements or fails),
\* whereas a binding inside the body of a with statement is found.
C24_DefBodiesSkippedWithBodiesSearched ==
    fres.st # "pending" =>
        /\ fres.st = "found" =>
              fres.name.name \in BoundNames(FoundIn(fbody, fres))
        /\ ( /\ Binding(fbody, fquery) # {}
             /\ Max(Binding(fbody, fquery)) \in WithBodyBinding(fbody, fquery) )
           => /\ fres.st = "found"
              /\ fres.node.at[1] = fbody[Max(Binding(fbody, fquery))].pos[1]

\* C28: when find_scopedname_in_source is called with a position ceiling and
\* returns a definition, the pos of the returned ScopedName is strictly before
\* that ceiling; consequently resolving the same name again and again, each time
\* with the returned pos as the new ceiling, visits strictly earlier bindings,
\* never returns the same definition twice and ends with NameNotFound after at
\* most as many steps as the body has statements.
C28_ReturnedPosBeforeCeiling ==
    fres.st = "found" =>
        /\ fquery.pos # NoPos => StrictlyBefore(fres.name.pos, fquery.pos)
        /\ fsteps <= Len(fbody)

-----------------------------------------------------------------------------
(* Claims about find_in_scope (SpecScope) *)

\* the body a search looked at
LookedBody(env, l) ==
    CASE l.place = "level" -> env.levels[l.idx + 1]
      [] l.place = "cell" -> env.cells[l.idx + 1]
      [] OTHER -> env.module.body

\* the searched name is bound in the place, below the ceiling the place is entitled to
BoundAt(env, l, scoped_name, pos) ==
    Binding(LookedBody(env, l), [scoped_name EXCEPT !.pos = pos]) # {}

\* the rank of a place in the order innermost level, ..., outermost level, module,
\* latest cell, ..., first cell
PlaceRank(env, l) ==
    CASE l.place = "level" -> l.idx
      [] l.place = "module" -> Len(env.levels)
      [] OTHER -> Len(env.levels) + 1 + (Len(env.cells) - l.idx)

\* the places of a search were looked at innermost first, each one only after every
\* place before it had failed with NameNotFound (a module without source: TypeError)
SearchedInOrder(env, trace) ==
    /\ \A i \in 1..Len(trace) : i < Len(trace) =>
          /\ PlaceRank(env, trace[i]) < PlaceRank(env, trace[i + 1])
          /\ trace[i].st = IF trace[i].place = "module" THEN "TypeError" ELSE "NameNotFound"
    /\ \A i \in 1..Len(trace) : trace[i].place = "level" => trace[i].idx = i - 1
    /\ \A i \in 1..Len(trace) : trace[i].place = "module" => i = Len(env.levels) + 1

\* an outer level and the module are searched without the position ceiling
OuterWithoutCeiling(trace) ==
    \A i \in 2..Len(trace) : trace[i].place \in {"level", "module"} => trace[i].pos = NoPos

\* history is searched only for the interactive top-level module
HistoryOnlyForMain(env, trace) ==
    \A i \in 1..Len(trace) : trace[i].place = "cell" => env.module.kind = "main"

\* the ceiling the i-th place of a search is entitled to: the ceiling of the searched
\* name for the first place, none for the places after it; in the history, the
\* ceiling the cell was searched with
Ceiling(scoped_name, trace, i) ==
    CASE trace[i].place = "cell" -> trace[i].pos
      [] i = 1 -> scoped_name.pos
      [] OTHER -> NoPos

\* no place looked at before the last one binds the searched name
NoInnerBinding(env, scoped_name, trace) ==
    \A i \in 1..Len(trace) : i < Len(trace) /\ trace[i].place # "module" =>
        ~BoundAt(env, trace[i], scoped_name, Ceiling(scoped_name, trace, i))

\* the scope of the place at which a search ended
ScopeOfPlace(env, l) == IF l.place = "level" THEN l.idx ELSE Global(env)

LastLooked(trace) == trace[Len(trace)]

\* C7 as the specification states it: a binding that find_in_scope returns was found
\* after searching the levels innermost first and then the module, every inner level
\* having failed, outer levels and the module without the position ceiling, history
\* only for the interactive top-level module, and the returned name is scoped to the
\* level at which the binding was found.
C7_ReturnedNameScopedToItsLevel ==
    sres.st = "found" =>
        /\ SearchedInOrder(senv, sres.trace)
        /\ OuterWithoutCeiling(sres.trace)
        /\ HistoryOnlyForMain(senv, sres.trace)
        /\ NoInnerBinding(senv, squery, sres.trace)
        /\ sres.name.scope = ScopeOfPlace(senv, LastLooked(sres.trace))

\* C7 amended: as above, but the returned name is scoped to the level at which the
\* binding was found unless the binding is an import (or from-import) without `as`,
\* which is returned in the empty scope; and a search that returns nothing stopped at the first place
\* whose search did not end in NameNotFound, or ran out of places.
C7_ScopedToItsLevelUnlessPlainImport ==
    sres.st # "pending" =>
        /\ SearchedInOrder(senv, sres.trace)
        /\ OuterWithoutCeiling(sres.trace)
        /\ HistoryOnlyForMain(senv, sres.trace)
        /\ NoInnerBinding(senv, squery, sres.trace)
        /\ sres.st = "found" =>
              /\ LastLooked(sres.trace).st = "found"
              /\ BoundAt(senv, LastLooked(sres.trace), squery,
                         Ceiling(squery, sres.trace, Len(sres.trace)))
              /\ sres.name.scope =
                    IF /\ sres.node.kind \in {"Import", "ImportFrom"}
                       /\ sres.node.alias.asname = NoName
                    THEN EmptyScope
                    ELSE ScopeOfPlace(senv, LastLooked(sres.trace))

\* a binding found in the module after an inner level failed below its ceiling
C7_FoundInModuleAfterLevelFailed ==
    /\ sres.st = "found"
    /\ squery.pos # NoPos
    /\ Len(sres.trace) >= 2
    /\ LastLooked(sres.trace).place = "module"
    /\ BoundAt(senv, sres.trace[1], squery, NoPos)
    /\ sres.name.scope = Global(senv)

\* the searched name is bound somewhere the search is entitled to look
BoundAnywhere(env, scoped_name) ==
    \/ \E l \in 1..Len(env.levels) : \E i \in 1..Len(env.levels[l]) :
          BoundNames(env.levels[l][i]) \cap VariantSet(scoped_name.name) # {}
    \/ /\ env.module.hasSource
       /\ \E i \in 1..Len(env.module.body) :
             BoundNames(env.module.body[i]) \cap VariantSet(scoped_name.name) # {}
    \/ /\ env.module.kind = "main"
       /\ ~env.module.hasSource
       /\ \E c \in 1..Len(env.cells) : \E i \in 1..Len(env.cells[c]) :
             BoundNames(env.cells[c][i]) \cap VariantSet(scoped_name.name) # {}

\* C4: a name bound at no level of its scope, not in the global statements of its
\* module and (for the interactive top-level module) in no history cell makes the
\* name finder raise NameNotFound.
C4_UnboundNameRaisesNameNotFound ==
    (sres.st # "pending" /\ ~BoundAnywhere(senv, squery)) => sres.st = "NameNotFound"

-----------------------------------------------------------------------------
(* Claims about Scope.unscoped and Scope.__eq__ (SpecRegistry) *)

\* both objects were made by from_source (each object one invocation) and have the
\* same dotted path
SamePathInvocations(a, b) ==
    /\ a.id_ # None
    /\ b.id_ # None
    /\ DotString(a) = DotString(b)

\* the ids registered for the dotted path of the scope cannot be sorted
Mixed(scope) ==
    LET ids == Ids(counts, DotString(scope)) IN None \in ids /\ ids # {None}

C10_EqualIffSameDotString ==
    rlast.op = "eq" =>
        (rlast.res[1] = "True") <=> (DotString(rlast.a) = DotString(rlast.b))

\* C10 amended: two Scope values compare equal if and only if dot_string() followed by
\* _formatted_index() is the same for both; two scopes with the same dot_string()
\* compare equal exactly when they have the same id_, and the comparison raises
\* TypeError exactly when the ids registered for the dot_string() of one of them hold
\* None next to a call-site string.
C10_EqualIffSameDotStringAndIndex ==
    rlast.op = "eq" =>
        IF Mixed(rlast.a) \/ Mixed(rlast.b)
        THEN rlast.res[1] = "TypeError"
        ELSE /\ (rlast.res[1] = "True") <=>
                    (DotString(rlast.a) \o FormattedIndex(rlast.a, counts)
                        = DotString(rlast.b) \o FormattedIndex(rlast.b, counts))
             /\ rlast.res[1] \in {"True", "False"}
             /\ DotString(rlast.a) = DotString(rlast.b) =>
                    ((rlast.res[1] = "True") <=> (rlast.a.id_ = rlast.b.id_))

\* two scopes of one dotted path and of different call sites compared unequal
C10_SamePathComparedUnequal ==
    /\ rlast.op = "eq"
    /\ DotString(rlast.a) = DotString(rlast.b)
    /\ rlast.a.id_ # rlast.b.id_
    /\ rlast.res[1] = "False"

\* C22: the disambiguating index of a Scope is stable: after any sequence of
\* Scope creations (from_source, toplevel, empty, up, global_, from_level,
\* copies), index() of an already existing scope is defined and equal to the
\* value it had before, indices following the order in which the distinguishing
\* identifiers were first seen; hence the string form, hash and unscoped() names
\* of an existing scope never change.
C22_IndexOfExistingScopeStable ==
    [][\A s \in scopes :
          /\ Index(s, counts') = Index(s, counts)
          /\ Repr(s, counts') = Repr(s, counts)
          /\ Unscoped(s, VarName, counts') = Unscoped(s, VarName, counts)]_vars

-----------------------------------------------------------------------------
(* Claims about the dependency graph builder (SpecGraph, SpecGraphFair) *)

Keys == DOMAIN graph

\* build has returned a graph
Built == gstatus \in {"built", "dumped"}

\* a sequence that holds no element twice
NoRepeats(s) == \A i, j \in 1..Len(s) : s[i] = s[j] => i = j

KeyBeforeExpansion ==
    gstatus \in {"building", "built", "dumped"} =>
        \A i \in 1..Len(enq) : \E k \in Keys : enq[i] \in graph[k].globals_

C3_GraphClosed ==
    /\ Built => \A k \in Keys : \A g \in graph[k].globals_ :
                    g \in Keys /\ g.name \notin Builtins
    /\ gstatus \notin {"init", "building", "built", "dumped"} => gfailed.name \notin Builtins

\* a built graph with a node whose statement uses a builtin next to other names
C3_BuiltWithBuiltinUser ==
    /\ Built
    /\ \E k \in Keys : \E i \in 1..Len(gbody) :
          /\ graph[k].source = gbody[i].pos
          /\ LenName \in gbody[i].uses
          /\ graph[k].globals_ # {}
          /\ graph[k].globals_ \subseteq Keys

C26_OwnKeyNotAmongGlobals ==
    gstatus \in {"building", "built", "dumped"} =>
        \A k \in Keys : k \notin graph[k].globals_

-----------------------------------------------------------------------------
(* Claims about CodeGraph.inject (SpecInject) *)

\* C27: inject(node) adds exactly that node to the graph under its own name without
\* running the name finder on the node's globals_ (nothing is enqueued or resolved,
\* no other key appears), and leaves every key and node that was already in the
\* graph unchanged.
C27_InjectAddsOnlyTheNode ==
    [][(gstatus = "built" /\ gstatus' = "built") =>
          /\ \A k \in DOMAIN graph : k \in DOMAIN graph' /\ graph'[k] = graph[k]
          /\ Cardinality(DOMAIN graph' \ DOMAIN graph) <= 1
          /\ \A k \in DOMAIN graph' \ DOMAIN graph :
                /\ graph'[k] \in InjectedNodes(gstart, gbody)
                /\ graph'[k].name = k
          /\ todo' = todo
          /\ enq' = enq]_vars

\* a built graph of several nodes in which a loader was injected whose load function
\* is not in the graph, next to a loader whose load function is
C27_LoaderInjectedBesideBuiltNodes ==
    /\ gstatus = "built"
    /\ \E k \in Keys, l \in Keys :
          /\ graph[k].name.pos = InjectedPos
          /\ graph[k].globals_ # {}
          /\ graph[k].globals_ \cap Keys = {}
          /\ graph[l].name.pos = InjectedPos
          /\ graph[l].globals_ # {}
          /\ graph[l].globals_ \subseteq Keys
    /\ \E k \in Keys \ {StartKey(gbody)} : graph[k].name.pos # InjectedPos

-----------------------------------------------------------------------------
(* Claims about Scope.from_source along a chain of calls (SpecChain) *)

\* the frame chain[i] runs a function that its parent called
Called(chain, i) == i < Len(chain) /\ chain[i].function.full_name # "<module>"

\* the parameters of a frame's function that its call binds: the implicit first
\* parameter of a method, the parameters filled by position, by keyword or by a
\* default, and the ** parameter when a keyword of the call names no parameter
BoundParameters(frame) ==
    LET args == frame.function.args
        named == IF frame.function.is_dynamic_method THEN Tail(args.args) ELSE args.args
        defaulted == SubSeq(args.args, Len(args.args) - Len(args.defaults) + 1, Len(args.args))
        keywords == DictKeys(frame.call.keyword_args)
    IN  (IF frame.function.is_dynamic_method THEN {Head(args.args)} ELSE {})
        \cup {named[k] : k \in 1..Min({Len(named), Len(frame.call.pos_args)})}
        \cup (keywords \cap Elements(named))
        \cup Elements(defaulted)
        \cup (IF keywords \ Elements(named) # {} THEN {args.kwarg} ELSE {})

RECURSIVE TaggedOneHopUp(_, _, _)
\* scope is the scope of the frame chain[i]: its body starts with one assignment per
\* bound parameter, each tagged with one and the same scope, the scope of the frame
\* chain[i + 1], of which the same holds
TaggedOneHopUp(scope, chain, i) ==
    IF scope = NoTag THEN FALSE
    ELSE IF ~Called(chain, i) THEN scope.scopelist = <<>>
    ELSE /\ Len(scope.scopelist) = 1
         /\ scope.scopelist[1].name = chain[i].function.full_name
         /\ LET body == scope.scopelist[1].body
                n == Cardinality(BoundParameters(chain[i]))
            IN  /\ Len(body) = n + Len(chain[i].function.body)
                /\ {body[k].target : k \in 1..n} = BoundParameters(chain[i])
                /\ \A k \in 1..n : body[k].tag = body[1].tag
                /\ \A k \in (n + 1)..Len(body) : body[k].tag = NoTag
                /\ n > 0 => TaggedOneHopUp(body[1].tag, chain, i + 1)

\* C21: for a chain of calls (test -> chain_nested(e) -> nested_frame(x, 1)) the
\* scope built at the innermost frame starts with one synthetic assignment per bound
\* parameter, the right-hand side of each is tagged with the scope of the frame that
\* made the call (exactly one hop up), and the synthetic assignments of that scope
\* are in turn tagged with the scope of its caller.
C21_AssignmentsTaggedWithCallerScope ==
    kres.op = "chain" =>
        /\ kres.res.st = "scope"
        /\ TaggedOneHopUp(kres.res, kstack, 1)

\* the chain of the test: nested_frame(x, 1) called by chain_nested(e) called by the
\* test method; a = x is tagged with the scope of chain_nested, whose x = e is tagged
\* with the scope of the test method
C21_ChainOfThreeCalls ==
    /\ kres.op = "chain"
    /\ Len(kstack) = 4
    /\ kstack[1] = ChainFrame(NestedFrame, PlainCall(<<<<"x">>, <<"1">>>>, <<>>))
    /\ kstack[2] = ChainFrame(ChainNested, PlainCall(<<<<"e">>>>, <<>>))
    /\ kstack[3].function = TestMethod
    /\ kres.res.scopelist[1].name = "nested_frame"
    /\ \E chain_scope \in {kres.res.scopelist[1].body[1].tag} :
          /\ kres.res.scopelist[1].body[1] = AssignNode("a", <<"x">>, chain_scope)
          /\ chain_scope.scopelist[1].name = "chain_nested"
          /\ \E outer_scope \in {chain_scope.scopelist[1].body[1].tag} :
                /\ chain_scope.scopelist[1].body[1] = AssignNode("x", <<"e">>, outer_scope)
                /\ outer_scope.scopelist[1].name = "Test_GetScopeFromFrame::test_chain_nested"
                /\ outer_scope.scopelist[1].body[2] = AssignNode("e", <<>>, NoTag)

-----------------------------------------------------------------------------
(* Claims about find_globals (SpecGlobals) *)

\* the names a block binds: assigned names and the names of its definitions
BoundIn(block) ==
    {block[i].id : i \in {j \in 1..Len(block) : block[j].kind \in {"Store", "Def", "Class"}}}

ParamsOf(node) == {node.params[i] : i \in 1..Len(node.params)}

RECURSIVE LoadedUnbound(_, _)
\* the names loaded in a block, or free in a definition nested in it, that neither
\* the block nor its parameters bind
LoadedUnbound(block, params) ==
    ( {block[i].id : i \in {j \in 1..Len(block) : block[j].kind = "Load"}}
      \cup UNION {LoadedUnbound(block[i].defaults, {}) \cup
                  LoadedUnbound(block[i].body, ParamsOf(block[i])) :
                      i \in {j \in 1..Len(block) : block[j].kind \in {"Def", "Class"}}} )
    \ (BoundIn(block) \cup params)

RECURSIVE LoadedBeforeBound(_, _)
\* the names loaded in a block at a place before which neither the block nor its
\* parameters bind them (the default values of a definition stand in the block),
\* and the names free in this sense in a nested definition that neither the block,
\* anywhere, nor its parameters bind
LoadedBeforeBound(block, params) ==
    LET Spread(b) ==
            Concat([i \in 1..Len(b) |-> b[i].defaults \o <<b[i]>>])
        flat == Spread(block)
        direct == {flat[i].id : i \in {j \in 1..Len(flat) :
                      /\ flat[j].kind = "Load"
                      /\ flat[j].id \notin params \cup BoundIn(SubSeq(flat, 1, j - 1))}}
        inner == UNION {LoadedBeforeBound(block[i].body, ParamsOf(block[i])) :
                           i \in {j \in 1..Len(block) : block[j].kind \in {"Def", "Class"}}}
    IN  direct \cup (inner \ (BoundIn(block) \cup params))

\* C25 as the specification states it: find_globals of a block returns exactly the names that are
\* loaded without being bound in that block; free names of nested function and
\* class bodies are included unless the enclosing block binds them, parameters and
\* local assignments are excluded.
C25_GlobalsAreLoadedAndUnbound ==
    nres.st = "found" => nres.globals = LoadedUnbound(nblock, {})

\* C25 amended: find_globals of a block returns exactly the names that are loaded
\* at a place where no earlier node of the block has bound them (the right-hand a
\* of `a = run(a)` is global when no earlier statement binds a), and the free names
\* of nested function and class bodies unless the enclosing block binds them, before
\* or after the nested definition; parameters and names assigned earlier are
\* excluded, and assigning to an attribute or a subscript of a name leaves that
\* name global.
C25_GlobalsAreLoadedBeforeBound ==
    nres.st = "found" => nres.globals = LoadedBeforeBound(nblock, {})

\* a module in which a name is loaded by the statement that binds it, a nested
\* definition uses a name that the module binds afterwards, a nested definition
\* uses a name the module never binds, and an attribute of a name is assigned
C25_SelfReferenceNestedAndAttribute ==
    /\ nres.st = "found"
    /\ \E i \in 1..Len(nblock) :
          /\ nblock[i].kind = "Load"
          /\ nblock[i].id \in BoundIn(nblock) \cap nres.globals
    /\ \E i \in 1..Len(nblock) :
          /\ nblock[i].kind = "Def"
          /\ "j" \in nres.globals
          /\ "c" \in nres.globals
          /\ "p" \notin nres.globals
    /\ \E i \in 1..Len(nblock) :
          /\ nblock[i].kind = "Attr"
          /\ "x" \in nres.globals

-----------------------------------------------------------------------------
(* Claims about Serializer (SpecSerializer) *)

\* the tokens identifiers are made of
IdentifierTokens == {"SAVETHIS_VALUE_", "x", "y", "f", "load", "pathlib"} \cup {DigitChars[d] : d \in 1..10}

\* the identifiers a source refers to: its longest runs of identifier tokens
Identifiers(source) ==
    { SubSeq(source, run[1], run[2]) :
        run \in { r \in (1..Len(source)) \X (1..Len(source)) :
                    /\ r[1] <= r[2]
                    /\ \A k \in r[1]..r[2] : source[k] \in IdentifierTokens
                    /\ r[1] > 1 => source[r[1] - 1] \notin IdentifierTokens
                    /\ r[2] < Len(source) => source[r[2] + 1] \notin IdentifierTokens } }

\* the serializers of the store whose variable name is an identifier of a source
InvokedByIdentifier(sources, stored) ==
    {k \in 1..Len(stored) : \E source \in sources : Varname(stored[k]) \in Identifiers(source)}

\* C29: any two distinct Serializer instances that are saved into the same
\* directory write their values to distinct file names, and the file name of a
\* serializer is determined by its own index: it is the same whenever the serializer
\* is saved, however many serializers were made after it.
C29_FileNameByOwnIndex ==
    \A one \in written, other \in written :
        (one.ser = other.ser) <=> (one.file = other.file)

\* C30: save_all calls save on a stored serializer, and merges its loader statements
\* into the graph, only if the serializer's variable name is an identifier of some
\* node of the graph being saved: not if it is a prefix of another identifier
\* (SAVETHIS_VALUE_1 and SAVETHIS_VALUE_10), and not if the serializer is one of an
\* earlier save that the graph does not use.
C30_SavedOnlyIfReferenced ==
    /\ \A serializer \in invoked :
          \E source \in saving : Varname(serializer) \in Identifiers(source)
    /\ \A source \in codegraph \ (saving \cup {PathlibSource}) :
          \E k \in InvokedByIdentifier(saving, store), class_i \in 0..MaxIndex :
              source = LoaderSource(store[k], class_i)

-----------------------------------------------------------------------------
(* Claims about Signature.get_call_assignments (SpecSig) *)

\* get_call_assignments has been called, and has returned
SigCalled == cres.st \notin {"idle", "pending"}
SigReturned == cres.st = "ok"

\* the positional parameters of the function called, in declaration order
Positional == cdef.posonlyargs \o cdef.args

\* the names the call passes by keyword
Named == DictKeys(ccall.keyword_args)

\* the parameters the definition declares
Declared == Elements(Positional) \cup Elements(cdef.kwonlyargs)

\* the parameters that have a default, and the text of it
WithDefault ==
    {cdef.args[i] : i \in (Len(cdef.args) - Len(cdef.defaults) + 1)..Len(cdef.args)}
    \cup {cdef.kwonlyargs[i] : i \in {j \in 1..Len(cdef.kwonlyargs) : cdef.kw_defaults[j] # NoText}}

\* the parameters filled by the explicit positional arguments
FilledPositionally ==
    {Positional[i] : i \in 1..Min({Len(Positional), Len(ccall.pos_args)})}

\* C11: get_call_assignments raises whenever the call has more positional arguments
\* than the signature has positional parameters and the signature has no *args.
C11_ExtraPositionalRaises ==
    (/\ SigCalled
     /\ cdef.vararg = NoParam
     /\ Len(ccall.pos_args) > Len(Positional))
    => ~SigReturned

\* C12: get_call_assignments raises whenever a keyword argument names a
\* positional-only parameter, also when the signature declares **kwargs.
C12_PositionalOnlyByKeywordRaises ==
    (/\ SigCalled
     /\ Named \cap Elements(cdef.posonlyargs) # {})
    => ~SigReturned

\* the keyword arguments that name no declared parameter
ExtraKeywords == Named \ Declared

\* the text (or dict) bound to **kwargs holds the keyword k with its value
KwargsHolds(text, k) ==
    \E j \in 1..Len(text) :
        /\ text[j] = k
        /\ \/ /\ j + 1 + Len(KwText(k)) <= Len(text)
              /\ SubSeq(text, j + 2, j + 1 + Len(KwText(k))) = KwText(k)
           \/ /\ j + Len(KwText(k)) <= Len(text)
              /\ SubSeq(text, j + 1, j + Len(KwText(k))) = KwText(k)

\* C13: a keyword argument that names no declared parameter goes into the **kwargs
\* binding when the signature declares one; when it declares none the call raises if
\* ignore_extra_kwargs is false, and succeeds without the keyword in the result if
\* ignore_extra_kwargs is requested on the Signature or as the argument of the call.
C13_ExtraKeywordsSunkRaisedOrIgnored ==
    (SigCalled /\ ExtraKeywords # {} /\ Named \subseteq ExtraKeywords) =>
        /\ cdef.kwarg # NoParam =>
              /\ SigReturned
              /\ cdef.kwarg \in DictKeys(cres.res)
              /\ \A k \in ExtraKeywords : KwargsHolds(DictGet(cres.res, cdef.kwarg), k)
        /\ (cdef.kwarg = NoParam /\ ~csig.ignore_extra_kwargs /\ ~ccall.ignore_extra_kwargs)
              => cres.st = "ValueError"
        /\ (cdef.kwarg = NoParam /\ (csig.ignore_extra_kwargs \/ ccall.ignore_extra_kwargs))
              => /\ SigReturned
                 /\ ExtraKeywords \cap DictKeys(cres.res) = {}

C15_DefaultsReadFromStarKwargs ==
    SigReturned =>
        \A name \in WithDefault \ (FilledPositionally \cup Named) :
            /\ name \in DictKeys(cres.res)
            /\ DictGet(cres.res, name) =
                  IF ccall.star_kwargs # NoParam
                  THEN GetText(ccall.star_kwargs, name, DefaultText(name))
                  ELSE DefaultText(name)

\* C16: a keyword-only parameter that the call names is bound to the keyword's
\* expression, with or without a default; one with a default that the call does not
\* name is bound to its default; naming a keyword-only parameter is never an extra
\* keyword argument (a call whose keywords all name regular or keyword-only
\* parameters does not raise).
C16_KeywordOnlyBound ==
    /\ SigReturned =>
          \A k \in Elements(cdef.kwonlyargs) :
              /\ k \in Named => /\ k \in DictKeys(cres.res)
                                /\ DictGet(cres.res, k) = KwText(k)
              /\ (k \notin Named /\ k \in WithDefault) =>
                    /\ k \in DictKeys(cres.res)
                    /\ DictGet(cres.res, k) \in
                          {DefaultText(k), GetText(ccall.star_kwargs, k, DefaultText(k))}
    /\ (SigCalled /\ Named \subseteq Elements(cdef.args) \cup Elements(cdef.kwonlyargs))
          => SigReturned

\* C17: the positional parameters left unfilled by the explicit positional
\* arguments are filled, in declaration order, from the elements of star_args.
C17_StarArgsFillPositional ==
    (SigReturned /\ ccall.star_args # NoText) =>
        \A i \in 1..Len(StarElements) :
            Len(ccall.pos_args) + i <= Len(Positional) =>
                /\ Positional[Len(ccall.pos_args) + i] \in DictKeys(cres.res)
                /\ DictGet(cres.res, Positional[Len(ccall.pos_args) + i]) = StarElements[i]

-----------------------------------------------------------------------------
(* Claims about rename (SpecRename) *)

\* an enclosing scope of an occurrence, and whether it binds the renamed name
Enclosing(type, binds) == [type |-> type, binds |-> binds]

\* the occurrences of names in a block, in the order of the text, each with its
\* enclosing scopes (outermost first)
RECURSIVE Occurrences(_, _)
Occurrences(block, ctx) ==
    IF block = <<>> THEN <<>>
    ELSE LET node == Head(block)
             inner ==
                CASE node.kind = "Def" ->
                        Append(ctx, Enclosing("function", BindsLocally(node, RenameFrom)))
                  [] node.kind = "Class" -> Append(ctx, Enclosing("class", FALSE))
                  [] node.kind = "Comp" ->
                        Append(ctx, Enclosing("comp", node.id = RenameFrom))
                  [] OTHER -> ctx
         IN  <<[kind |-> node.kind, id |-> node.id, params |-> node.params, ctx |-> ctx]>>
             \o Occurrences(node.defaults, ctx)
             \o Occurrences(node.body, inner)
             \o Occurrences(Tail(block), ctx)

\* the occurrence resolves to the module-level binding of the renamed name
ResolvesToModule(occ) ==
    /\ occ.id = RenameFrom
    /\ CASE occ.kind = "Load" ->
               \A i \in 1..Len(occ.ctx) :
                   occ.ctx[i].type \in {"function", "comp"} => ~occ.ctx[i].binds
         [] occ.kind \in {"Store", "Def", "Class"} -> occ.ctx = <<>>
         [] OTHER -> FALSE

\* C18: rename rewrites the module-level binding of the name and every reference
\* that resolves to it (also inside nested functions, methods, class bodies and
\* default-argument expressions), and leaves unchanged every occurrence local to
\* a nested scope that rebinds the name (parameters, local assignments, method
\* names), every attribute name, and the target and uses of a comprehension
\* variable of that name.
C18_RenamesWhatResolvesToModule ==
    (rres.st = "renamed" /\ rres.rename_locals) =>
        LET before == Occurrences(rsrc, <<>>)
            after == Occurrences(rres.out, <<>>)
        IN  /\ Len(after) = Len(before)
            /\ \A i \in 1..Len(before) :
                  /\ after[i].kind = before[i].kind
                  /\ after[i].params = before[i].params
                  /\ after[i].id = IF ResolvesToModule(before[i]) THEN RenameTo
                                   ELSE before[i].id

\* a renamed module that holds the module-level binding, a use in a class body
\* next to a method of that name, and a function with a parameter of that name
\* whose default is the global
C18_GlobalAndShadowedOccurrences ==
    /\ rres.st = "renamed"
    /\ rres.rename_locals
    /\ \E i, j, k \in 1..Len(rsrc) :
          /\ rsrc[i] = Store(RenameFrom) /\ rres.out[i] = Store(RenameTo)
          /\ rsrc[j].kind = "Class" /\ rsrc[j].id = "CCC"
          /\ rres.out[j].body[2] = Load(RenameTo)
          /\ rres.out[j].body[4].id = RenameFrom
          /\ rsrc[k].kind = "Def" /\ rsrc[k].id = "fff"
          /\ rres.out[k].params = rsrc[k].params
          /\ rres.out[k].defaults = <<Load(RenameTo)>>

-----------------------------------------------------------------------------
(* Claims about the scope of the caller (SpecCallScope) *)

\* C19: whenever the source text of a frame's module or file cannot be read
\* while the caller's scope is determined (CallInfo, _get_scope_from_frame,
\* Scope.toplevel), the result is a top-level scope with an empty scopelist and
\* no exception reaches the caller.
C19_UnreadableSourceDegradesToToplevel ==
    (kres.op # "idle" /\ kres.res.unread) =>
        /\ kres.res.st = "scope"
        /\ kres.res.scopelist = <<>>

\* the guarded reads: _get_scope_from_frame and Scope.toplevel raise nothing
\* when a read fails with the error they expect, and give a top-level scope
\* when the read that fails is one for the frame itself or for its caller
GuardedReadsDegrade ==
    (kres.op \in {"_get_scope_from_frame", "Scope.toplevel"}) =>
        /\ kres.res.st = "scope"
        /\ (\E i \in 1..Min({2, Len(kstack)}) : ~kread[ModuleOf(kstack[i])]) =>
               kres.res.scopelist = <<>>

-----------------------------------------------------------------------------
(* Claims about cut (SpecCut) *)

\* the replacement of tsrc that starts at (line, col), if any
StartingAt(line, col) == {i \in 1..Len(tsrc.rss) : tsrc.rss[i].from_line = line /\ tsrc.rss[i].from_col = col}

\* the text between (line, col) and the end boundary of the cut, read off the
\* original position by position: the replacement text where a replaced span
\* starts, the original character outside every span
RECURSIVE ReadFrom(_, _)
ReadFrom(line, col) ==
    IF line = tcut[2] /\ col >= tcut[4] THEN <<>>
    ELSE IF col >= Len(tsrc.orig[line + 1]) THEN <<"\n">> \o ReadFrom(line + 1, 0)
    ELSE IF StartingAt(line, col) # {}
    THEN tsrc.rss[Only(StartingAt(line, col))].repl \o ReadFrom(line, tsrc.rss[Only(StartingAt(line, col))].to_col)
    ELSE <<tsrc.orig[line + 1][col + 1]>> \o ReadFrom(line, col + 1)

\* a boundary of the cut lies strictly inside a replaced span
BoundaryInsideSpan ==
    \E i \in 1..Len(tsrc.rss) :
        \/ tsrc.rss[i].from_line = tcut[1] /\ tsrc.rss[i].from_col < tcut[3] /\ tcut[3] < tsrc.rss[i].to_col
        \/ tsrc.rss[i].from_line = tcut[2] /\ tsrc.rss[i].from_col < tcut[4] /\ tcut[4] < tsrc.rss[i].to_col

\* C20: cut on a string with a pending replacement, with boundaries in the
\* coordinates of the original text, raises ValueError if and only if its start
\* or its end boundary lies strictly inside a replaced span; otherwise it
\* returns the text between the boundaries with the replacement text in the
\* place of each replaced span the cut covers, and the original text where the
\* cut lies outside every replaced span.
C20_CutSplicesOrRaises ==
    (tres.st # "idle") =>
        /\ tres.st = "ValueError" <=> BoundaryInsideSpan
        /\ tres.st = "returned" => tres.text = ReadFrom(tcut[1], tcut[3])

\* a cut over two lines that returned a text holding a replacement longer than
\* its span, after a replaced span on the line of its start
C20_CutAroundAndAfterReplacements ==
    /\ tres.st = "returned"
    /\ Len(tsrc.rss) = 2
    /\ tcut[1] < tcut[2]
    /\ \E i, j \in 1..2 :
          /\ tsrc.rss[i].from_line = tcut[1]
          /\ tsrc.rss[i].to_col <= tcut[3]
          /\ Len(tsrc.rss[i].repl) # tsrc.rss[i].to_col - tsrc.rss[i].from_col
          /\ tsrc.rss[j].from_line = tcut[2]
          /\ tsrc.rss[j].to_col <= tcut[4]
          /\ Len(tsrc.rss[j].repl) > tsrc.rss[j].to_col - tsrc.rss[j].from_col

====
